---- MODULE Spec2Model ----
(***************************************************************************)
(* Seoul urban FAR atlas: the PMTiles build script                         *)
(* (app/scripts/buildBuildingsPmtiles.mjs) and the PMTiles dev-server      *)
(* middleware (app/vite.config.js).                                        *)
(*                                                                         *)
(* Spec      the build CLI: main -> parseArgs -> buildPmtiles              *)
(* SpecArgs  parseArgs alone, over a wider set of command lines            *)
(* SpecServe one archive handler of createPmtilesHandlers with its         *)
(*           NodeFileSource, concurrent requests and shutdown              *)
(*                                                                         *)
(* Longitudes and latitudes are integers in units of 1/10000 degree.       *)
(***************************************************************************)
EXTENDS Integers, Sequences, FiniteSets, TLC

VARIABLES
  \* ---- build CLI (buildBuildingsPmtiles.mjs)
  argv,         \* process.argv.slice(2): a sequence of tokens
  inputDoc,     \* what is at options.input
  options,      \* result of parseArgs, or NoOptions
  bpc,          \* position of main/buildPmtiles
  exitCode,     \* process.exitCode (0 while unset)
  errMsg,       \* message of the error main().catch received
  fs,           \* output directory, archive file and sidecar file
  fs0,          \* fs when the process started
  geo,          \* bounds, summaryZoom and the feature list of the parsed input
  cur,          \* loop variables z, x, y of the tile scan
  written,      \* calls writer.writeTileXYZ(z, x, y, data) made so far
  tileCount,
  tileCoords,
  \* ---- tile server (vite.config.js)
  handlePromise,   \* NodeFileSource.handlePromise: 0 (null) or an index of handles
  handles,         \* every open(path, 'r') made: its promise and the OS handle
  headerPromise,   \* 0 (undefined) or an index of loads
  metadataPromise, \* 0 (undefined/null) or an index of loads
  summaryPromise,  \* 0 (undefined/null) or an index of loads
  loads,           \* every archive.getHeader/getMetadata/getZxy and sidecar readFile started
  reqs,            \* the middleware invocations
  closers,         \* the close() invocations
  cfg,             \* the archive entry of PMTILES_ARCHIVES this handler serves
  shutdown,        \* the http server has emitted 'close'
  \* ---- diagnostic scripts (inspectPmtiles.mjs, debugPmtiles.mjs)
  tool             \* the run of a diagnostic script, or NoTool

buildVars == <<argv, inputDoc, options, bpc, exitCode, errMsg, fs, fs0, geo, cur,
               written, tileCount, tileCoords>>
serveVars == <<handlePromise, handles, headerPromise, metadataPromise, summaryPromise,
               loads, reqs, closers, cfg, shutdown>>
toolVars == <<tool>>
vars == <<buildVars, serveVars, toolVars>>

(***************************************************************************)
(* Bounds of the model                                                     *)
(***************************************************************************)
MaxArgs == 3        \* longest command line of SpecArgs
MaxFeatures == 2    \* most features in the input collection
ZoomCap == 2        \* largest zoom a modelled build scans
MaxReqs == 2        \* requests the server receives
MaxClosers == 2     \* invocations of close()

Max(a, b) == IF a >= b THEN a ELSE b
Min(a, b) == IF a <= b THEN a ELSE b
Pow2(k) == 2 ^ k

(***************************************************************************)
(* Command-line tokens.  A token is a string; dd says whether it starts    *)
(* with "--" and body is the text after that prefix (the whole text when   *)
(* there is no prefix).  Undefined is argv[i + 1] past the end.            *)
(***************************************************************************)
Tok(dd, body) == [kind |-> "string", dd |-> dd, body |-> body]
Undefined == [kind |-> "undefined", dd |-> FALSE, body |-> "undefined"]

FlagBodies == {"input", "layer", "minzoom", "maxzoom", "name", "constructor", "bogus"}
ValueBodies == {"a.json", "1", "2", "", "abc"}
Tokens == {Tok(TRUE, b) : b \in FlagBodies} \cup {Tok(FALSE, b) : b \in ValueBodies}

SeqsUpTo(S, n) == UNION {[1..k -> S] : k \in 0..n}

\* arg.startsWith('--')
StartsWithDashes(tok) == tok.kind = "string" /\ tok.dd
\* arg.slice(2)
Slice2(tok) == tok.body

(***************************************************************************)
(* DEFAULTS and the JavaScript operators parseArgs applies to it           *)
(***************************************************************************)
DEFAULTS ==
  [input |-> "../../buildings_merged.geojson",
   output |-> "../buildings.pmtiles",
   layer |-> "buildings",
   minzoom |-> 12,
   maxzoom |-> 13,
   summaryzoom |-> 13,
   name |-> "Seoul FAR Buildings",
   description |-> "Building footprints with FAR predictions converted from GeoJSON to PMTiles."]

OwnKeys == DOMAIN DEFAULTS
\* DEFAULTS is an object literal: its prototype is Object.prototype, whose
\* properties the `in` operator also finds.
ObjectPrototypeKeys == {"constructor", "toString", "valueOf", "hasOwnProperty",
                        "isPrototypeOf", "propertyIsEnumerable", "toLocaleString",
                        "__proto__"}
\* key in DEFAULTS
KeyInDEFAULTS(key) == key \in OwnKeys \cup ObjectPrototypeKeys

\* typeof DEFAULTS[key]
TypeofDefault(key) ==
  IF key \in {"minzoom", "maxzoom", "summaryzoom"} THEN "number"
  ELSE IF key \in OwnKeys THEN "string"
  ELSE IF key = "__proto__" THEN "object"
  ELSE "function"

\* Number(value): the numeric value of a string literal; the empty string
\* converts to 0; undefined and any other text convert to NaN.
NaN == [finite |-> FALSE, n |-> 0]
Num(n) == [finite |-> TRUE, n |-> n]
NumericLiterals == {"0", "1", "2", "3", "12", "13"}
LiteralValue(body) ==
  CASE body = "0" -> 0 [] body = "1" -> 1 [] body = "2" -> 2 [] body = "3" -> 3
    [] body = "12" -> 12 [] body = "13" -> 13
Number(value) ==
  IF value.kind = "undefined" \/ value.dd THEN NaN
  ELSE IF value.body \in NumericLiterals THEN Num(LiteralValue(value.body))
  ELSE IF value.body = "" THEN Num(0)
  ELSE NaN
\* !value
Falsy(value) == value.kind = "undefined" \/ (~value.dd /\ value.body = "")

\* resolve(__dirname, p) for a relative p
Resolve(p) == <<"__dirname", p>>

\* args[key] = v on the copy of DEFAULTS
AssignKey(args, key, v) ==
  IF key \in DOMAIN args THEN [args EXCEPT ![key] = v] ELSE args @@ (key :> v)

Returned(args) == [ok |-> TRUE, args |-> args, err |-> "", key |-> ""]
Thrown(msg, key) == [ok |-> FALSE, args |-> DEFAULTS, err |-> msg, key |-> key]

RECURSIVE ParseLoop(_, _, _)
ParseLoop(av, i, args) ==
  IF i > Len(av)
    THEN Returned([args EXCEPT !.input = Resolve(args.input),
                               !.output = Resolve(args.output)])
  ELSE IF ~StartsWithDashes(av[i]) THEN ParseLoop(av, i + 1, args)
  ELSE
    LET key == Slice2(av[i])
        value == IF i + 1 <= Len(av) THEN av[i + 1] ELSE Undefined
    IN  IF ~KeyInDEFAULTS(key) THEN Thrown("Unknown option", key)
        ELSE IF TypeofDefault(key) = "number"
          THEN LET parsed == Number(value)
               IN  IF ~parsed.finite THEN Thrown("Expected number", key)
                   ELSE ParseLoop(av, i + 2, AssignKey(args, key, parsed.n))
        ELSE IF Falsy(value) \/ StartsWithDashes(value)
          THEN Thrown("Missing value", key)
        ELSE ParseLoop(av, i + 2, AssignKey(args, key, value.body))

parseArgs(av) == ParseLoop(av, 1, DEFAULTS)

(***************************************************************************)
(* Tile utilities                                                          *)
(***************************************************************************)
MAX_LATITUDE == 850511
\* the Infinity of the bounding box of an empty collection
INF == 10000000

clampLatitude(lat) == Max(-MAX_LATITUDE, Min(MAX_LATITUDE, lat))

\* The latitudes at which the tile row changes: MercatorEdges(z)[k] is the
\* largest latitude whose row
\*   floor((1 - ln(tan(latRad) + 1 / cos(latRad)) / PI) / 2 * 2^z)
\* is at least k.
MercatorEdges(z) ==
  CASE z = 0 -> <<>>
    [] z = 1 -> <<0>>
    [] z = 2 -> <<665132, 0, -665133>>
    [] z = 3 -> <<791713, 665132, 409798, 0, -409799, -665133, -791714>>
    [] z = 4 -> <<826762, 791713, 740195, 665132, 557765, 409798, 219430, 0,
                  -219431, -409799, -557766, -665133, -740196, -791714, -826763>>

MercatorRow(lat, z) ==
  Cardinality({k \in 1..Len(MercatorEdges(z)) : lat <= MercatorEdges(z)[k]})

\* mutant: the column and the row are not clamped to 0..n-1
lonLatToTile_unclamped(lon, lat, zoom) ==
  LET clampedLat == clampLatitude(lat)
      n == Pow2(zoom)
  IN  [x |-> ((lon + 1800000) * n) \div 3600000, y |-> MercatorRow(clampedLat, zoom)]
lonLatToTile(lon, lat, zoom) ==
  LET clampedLat == clampLatitude(lat)
      n == Pow2(zoom)
      x == ((lon + 1800000) * n) \div 3600000
      y == MercatorRow(clampedLat, zoom)
  IN  [x |-> Max(0, Min(n - 1, x)), y |-> Max(0, Min(n - 1, y))]

\* mutant: the corners are taken as (minLon, minLat) and (maxLon, maxLat) and
\* used as they come
getTileRange_cornersAsGiven(bounds, zoom) ==
  LET topLeft == lonLatToTile(bounds[1], bounds[2], zoom)
      bottomRight == lonLatToTile(bounds[3], bounds[4], zoom)
  IN  [minX |-> topLeft.x, maxX |-> bottomRight.x,
       minY |-> topLeft.y, maxY |-> bottomRight.y]
\* getTileRange(bounds, zoom), bounds = [minLon, minLat, maxLon, maxLat]
getTileRange(bounds, zoom) ==
  LET topLeft == lonLatToTile(bounds[1], bounds[4], zoom)
      bottomRight == lonLatToTile(bounds[3], bounds[2], zoom)
  IN  [minX |-> Min(topLeft.x, bottomRight.x), maxX |-> Max(topLeft.x, bottomRight.x),
       minY |-> Min(topLeft.y, bottomRight.y), maxY |-> Max(topLeft.y, bottomRight.y)]

(***************************************************************************)
(* The input file, the bounding box and the tile index                     *)
(***************************************************************************)
Feature(id, lon, lat) == [pnu |-> id, lon |-> lon, lat |-> lat]
FeaturePool == {Feature("p1", 0, 0), Feature("p2", 1000000, 500000),
                Feature("p3", -1200000, -700000), Feature("p4", 100000, 890000)}

Doc(present, parses, type, isArray, features) ==
  [present |-> present, parses |-> parses, type |-> type, isArray |-> isArray,
   features |-> features]
Docs ==
  {Doc(FALSE, FALSE, "", FALSE, <<>>),
   Doc(TRUE, FALSE, "", FALSE, <<>>),
   Doc(TRUE, TRUE, "FeatureCollection", FALSE, <<>>)}
  \cup {Doc(TRUE, TRUE, "NotAFeatureCollection", TRUE, <<f>>) : f \in FeaturePool}
  \cup {Doc(TRUE, TRUE, "FeatureCollection", TRUE, fl) :
          fl \in SeqsUpTo(FeaturePool, MaxFeatures)}

\* mutant: the features member is not checked to be an array
IsFeatureCollection_typeOnly(doc) == doc.type = "FeatureCollection"
\* geojson?.type !== 'FeatureCollection' || !Array.isArray(geojson.features), negated
IsFeatureCollection(doc) == doc.type = "FeatureCollection" /\ doc.isArray

SetMin(S) == CHOOSE m \in S : \A o \in S : m <= o
SetMax(S) == CHOOSE m \in S : \A o \in S : m >= o
\* turfBbox(geojson)
turfBbox(features) ==
  IF features = <<>> THEN <<INF, INF, -INF, -INF>>
  ELSE LET lons == {features[i].lon : i \in 1..Len(features)}
           lats == {features[i].lat : i \in 1..Len(features)}
       IN  <<SetMin(lons), SetMin(lats), SetMax(lons), SetMax(lats)>>

\* tileIndex.getTile(z, x, y): the features of the tile, in input order
getTile(features, z, x, y) ==
  LET inTile(f) == lonLatToTile(f.lon, f.lat, z) = [x |-> x, y |-> y]
  IN  SelectSeq(features, inTile)

\* mutant: only a missing tile object is skipped, a tile with no feature is not
IsEmptyTile_nullOnly(tile) == FALSE
\* !tile?.features?.length
IsEmptyTile(tile) == Len(tile) = 0

\* mutant: the features of a tile are encoded in reverse order
EncodeTile_reversed(layer, tile) ==
  [layer |-> layer, ids |-> [i \in 1..Len(tile) |-> tile[Len(tile) + 1 - i].pnu]]
\* vtpbf.fromGeojsonVt({[layer]: tile}, {version: 2}): the ids of the layer's features
EncodeTile(layer, tile) == [layer |-> layer, ids |-> [i \in 1..Len(tile) |-> tile[i].pnu]]

(***************************************************************************)
(* The build: main() and buildPmtiles(options)                             *)
(***************************************************************************)
NoOptions == [none |-> TRUE]
NoGeo == [bounds |-> <<0, 0, 0, 0>>, summaryZoom |-> 0, features |-> <<>>]
NoCur == [z |-> 0, x |-> 0, y |-> 0]

\* no diagnostic script is running
NoTool == [name |-> "none"]

NoFile == [gen |-> "none", tiles |-> <<>>, metadata |-> <<>>, summary |-> <<>>]
OldArchive == [gen |-> "old", tiles |-> <<>>, metadata |-> <<>>, summary |-> <<>>]
OldSidecar == [gen |-> "old", tiles |-> <<>>, metadata |-> <<>>, summary |-> <<>>]
\* a file a failed writeFile leaves behind: created or truncated, not complete
PartialFile == [gen |-> "partial", tiles |-> <<>>, metadata |-> <<>>, summary |-> <<>>]

FsStates ==
  {[dir |-> FALSE, archive |-> NoFile, sidecar |-> NoFile],
   [dir |-> TRUE, archive |-> NoFile, sidecar |-> NoFile],
   [dir |-> TRUE, archive |-> OldArchive, sidecar |-> OldSidecar]}

ZoomText == <<"0", "1", "2", "3">>
ZoomValues == {Tok(FALSE, ZoomText[z + 1]) : z \in 0..ZoomCap}
\* command lines of the build: the zoom options in either order, and malformed lines
BuildArgvs ==
  {<<Tok(TRUE, k), v>> : k \in {"minzoom", "maxzoom"}, v \in ZoomValues}
  \cup {<<Tok(TRUE, "minzoom"), a, Tok(TRUE, "maxzoom"), b>> : a, b \in ZoomValues}
  \cup {<<Tok(TRUE, "maxzoom"), b, Tok(TRUE, "minzoom"), a>> : a, b \in ZoomValues}
  \cup {<<Tok(TRUE, "minzoom"), Tok(FALSE, "1"), Tok(TRUE, "maxzoom"), Tok(FALSE, "2"),
          Tok(TRUE, "summaryzoom"), c>> : c \in ZoomValues}
  \cup {<<Tok(TRUE, "bogus"), Tok(FALSE, "1")>>, <<Tok(TRUE, "minzoom")>>,
        <<Tok(TRUE, "maxzoom"), Tok(FALSE, "abc")>>, <<Tok(TRUE, "layer")>>}

\* the zooms the scan of a parsed command line visits stay within ZoomCap
WithinZoomCap(av) ==
  LET r == parseArgs(av)
  IN  r.ok => (r.args.maxzoom <= ZoomCap \/ r.args.minzoom > r.args.maxzoom)

\* main().catch: console.error, process.exitCode = 1
MainCatch(msg) ==
  /\ bpc' = "failed"
  /\ exitCode' = 1
  /\ errMsg' = msg

\* const options = parseArgs(process.argv.slice(2))
MainParseArgs ==
  /\ UNCHANGED <<serveVars, toolVars>>
  /\ bpc = "start"
  /\ LET r == parseArgs(argv)
     IN  IF r.ok
           THEN /\ options' = r.args
                /\ bpc' = "read"
                /\ UNCHANGED <<exitCode, errMsg>>
           ELSE /\ MainCatch(r.err)
                /\ UNCHANGED options
  /\ UNCHANGED <<argv, inputDoc, fs, fs0, geo, cur, written, tileCount, tileCoords>>

\* the loop variables at the start of zoom z, or the end of the scan
ScanFrom(z, bounds, maxzoom) ==
  IF z <= maxzoom
    THEN LET range == getTileRange(bounds, z)
         IN  [pc |-> "scan", cur |-> [z |-> z, x |-> range.minX, y |-> range.minY]]
    ELSE [pc |-> "check", cur |-> NoCur]

\* mutant: the row loop stops one short, `y < range.maxY`
ScanAdvance_exclusiveRows(c, bounds, maxzoom) ==
  LET range == getTileRange(bounds, c.z)
  IN  IF c.y + 1 < range.maxY THEN [pc |-> "scan", cur |-> [c EXCEPT !.y = c.y + 1]]
      ELSE IF c.x + 1 <= range.maxX
        THEN [pc |-> "scan", cur |-> [z |-> c.z, x |-> c.x + 1, y |-> range.minY]]
      ELSE ScanFrom(c.z + 1, bounds, maxzoom)
\* y++, x++, z++ of the three nested loops
ScanAdvance(c, bounds, maxzoom) ==
  LET range == getTileRange(bounds, c.z)
  IN  IF c.y + 1 <= range.maxY THEN [pc |-> "scan", cur |-> [c EXCEPT !.y = c.y + 1]]
      ELSE IF c.x + 1 <= range.maxX
        THEN [pc |-> "scan", cur |-> [z |-> c.z, x |-> c.x + 1, y |-> range.minY]]
      ELSE ScanFrom(c.z + 1, bounds, maxzoom)

\* readFile, JSON.parse, the FeatureCollection check, turfBbox, summaryZoom,
\* geojsonvt, the writer and the loop headers up to the first getTile
BuildReadInput ==
  /\ UNCHANGED <<serveVars, toolVars>>
  /\ bpc = "read"
  /\ IF ~inputDoc.present THEN MainCatch("ENOENT") /\ UNCHANGED <<geo, cur>>
     ELSE IF ~inputDoc.parses THEN MainCatch("SyntaxError") /\ UNCHANGED <<geo, cur>>
     ELSE IF ~IsFeatureCollection(inputDoc)
       THEN MainCatch("Input must be a valid GeoJSON FeatureCollection")
            /\ UNCHANGED <<geo, cur>>
     ELSE LET bounds == turfBbox(inputDoc.features)
              summaryZoom == Min(Max(options.summaryzoom, options.minzoom), options.maxzoom)
              start == ScanFrom(options.minzoom, bounds, options.maxzoom)
          IN  /\ geo' = [bounds |-> bounds, summaryZoom |-> summaryZoom,
                         features |-> inputDoc.features]
              /\ cur' = start.cur
              /\ bpc' = start.pc
              /\ UNCHANGED <<exitCode, errMsg>>
  /\ UNCHANGED <<argv, inputDoc, options, fs, fs0, written, tileCount, tileCoords>>

\* an iteration whose tile is empty: continue
BuildSkipTile ==
  /\ UNCHANGED <<serveVars, toolVars>>
  /\ bpc = "scan"
  /\ IsEmptyTile(getTile(geo.features, cur.z, cur.x, cur.y))
  /\ LET nxt == ScanAdvance(cur, geo.bounds, options.maxzoom)
     IN  cur' = nxt.cur /\ bpc' = nxt.pc
  /\ UNCHANGED <<argv, inputDoc, options, exitCode, errMsg, fs, fs0, geo, written,
                 tileCount, tileCoords>>

\* an iteration that encodes and writes its tile
BuildWriteTile ==
  /\ UNCHANGED <<serveVars, toolVars>>
  /\ bpc = "scan"
  /\ LET tile == getTile(geo.features, cur.z, cur.x, cur.y)
         nxt == ScanAdvance(cur, geo.bounds, options.maxzoom)
     IN  /\ ~IsEmptyTile(tile)
         /\ written' = Append(written, [z |-> cur.z, x |-> cur.x, y |-> cur.y,
                                        data |-> EncodeTile(options.layer, tile)])
         /\ tileCount' = tileCount + 1
         /\ tileCoords' = IF cur.z = geo.summaryZoom
                            THEN Append(tileCoords, <<cur.z, cur.x, cur.y>>)
                            ELSE tileCoords
         /\ cur' = nxt.cur
         /\ bpc' = nxt.pc
  /\ UNCHANGED <<argv, inputDoc, options, exitCode, errMsg, fs, fs0, geo>>

\* mutant: the zero-tile check compares with a negative count and never fires
NoTilesGenerated_negative(count) == count < 0
\* tileCount === 0
NoTilesGenerated(count) == count = 0

\* after the loops: the zero-tile check, the metadata, writer.commit
BuildCommit ==
  /\ UNCHANGED <<serveVars, toolVars>>
  /\ bpc = "check"
  /\ IF NoTilesGenerated(tileCount)
       THEN MainCatch("No tiles generated - check input data and zoom levels")
       ELSE bpc' = "mkdir" /\ UNCHANGED <<exitCode, errMsg>>
  /\ UNCHANGED <<argv, inputDoc, options, fs, fs0, geo, cur, written, tileCount, tileCoords>>

\* await mkdir(dirname(options.output), {recursive: true})
BuildMkdir ==
  /\ UNCHANGED <<serveVars, toolVars>>
  /\ bpc = "mkdir"
  /\ \/ /\ fs' = [fs EXCEPT !.dir = TRUE]
        /\ bpc' = "archive"
        /\ UNCHANGED <<exitCode, errMsg>>
     \/ /\ ~fs.dir
        /\ MainCatch("EACCES")
        /\ UNCHANGED fs
  /\ UNCHANGED <<argv, inputDoc, options, fs0, geo, cur, written, tileCount, tileCoords>>

\* the default of detectFieldTypes' sampleSize parameter
DefaultSampleSize == 1000

\* feature.properties of a feature of the build's input: the one property
\* pnu, a string
PropertiesOf(feature) == [hasProps |-> TRUE, props |-> << <<"pnu", "string">> >>]

\* type === 'number' ? 'Float' : type === 'boolean' ? 'Boolean' : 'String'
TypeClass(type) ==
  IF type = "number" THEN "Float" ELSE IF type = "boolean" THEN "Boolean" ELSE "String"

\* types[key] is truthy: the key was assigned a type name, or it names a
\* property that the object literal {} inherits from Object.prototype
TypesHas(types, key) ==
  \/ \E k \in 1..Len(types) : types[k][1] = key
  \/ key \in ObjectPrototypeKeys

\* the inner loop over Object.entries(props): an entry is <<key, typeof value>>,
\* with "null" and "undefined" for the two values that `value == null` skips
RECURSIVE ScanEntries(_, _, _)
ScanEntries(props, j, types) ==
  IF j > Len(props) THEN types
  ELSE IF TypesHas(types, props[j][1]) \/ props[j][2] \in {"null", "undefined"}
    THEN ScanEntries(props, j + 1, types)
  ELSE ScanEntries(props, j + 1, Append(types, <<props[j][1], TypeClass(props[j][2])>>))

\* the outer loop over the first Math.min(features.length, sampleSize) features
RECURSIVE SampleLoop(_, _, _, _)
SampleLoop(properties, i, limit, types) ==
  IF i > limit THEN types
  ELSE IF ~properties[i].hasProps THEN SampleLoop(properties, i + 1, limit, types)
  ELSE SampleLoop(properties, i + 1, limit, ScanEntries(properties[i].props, 1, types))

\* detectFieldTypes(features, sampleSize), on the properties of the features:
\* the own entries of the returned object, in insertion order
detectFieldTypes(properties, sampleSize) ==
  SampleLoop(properties, 1, Min(Len(properties), sampleSize), <<>>)

\* the metadata object handed to writer.commit
Metadata ==
  [tilejson |-> "3.0.0", name |-> options.name, description |-> options.description,
   version |-> "1.0.0", minzoom |-> options.minzoom, maxzoom |-> options.maxzoom,
   summaryzoom |-> geo.summaryZoom, bounds |-> geo.bounds,
   vector_layers |-> <<[id |-> options.layer, description |-> options.description,
                        minzoom |-> options.minzoom, maxzoom |-> options.maxzoom,
                        version |-> 2, fields |-> detectFieldTypes([i \in 1..Len(geo.features) |->
                                                     PropertiesOf(geo.features[i])],
                                                   DefaultSampleSize)]>>]

\* mutant: the summary reports the requested summary zoom, not the clamped one
Summary_requestedZoom ==
  [tiles |-> tileCount, tileCoords |-> tileCoords, output |-> options.output,
   layer |-> options.layer, bounds |-> geo.bounds, minzoom |-> options.minzoom,
   maxzoom |-> options.maxzoom, summaryzoom |-> options.summaryzoom,
   geojsonFeatures |-> Len(geo.features), tileVersion |-> 2]
\* the summary object
Summary ==
  [tiles |-> tileCount, tileCoords |-> tileCoords, output |-> options.output,
   layer |-> options.layer, bounds |-> geo.bounds, minzoom |-> options.minzoom,
   maxzoom |-> options.maxzoom, summaryzoom |-> geo.summaryZoom,
   geojsonFeatures |-> Len(geo.features), tileVersion |-> 2]

\* await writeFile(options.output, pmtilesBytes)
BuildWriteArchive ==
  /\ UNCHANGED <<serveVars, toolVars>>
  /\ bpc = "archive"
  /\ \/ /\ fs' = [fs EXCEPT !.archive = [gen |-> "new", tiles |-> written,
                                           metadata |-> <<Metadata>>, summary |-> <<>>]]
        /\ bpc' = "sidecar"
        /\ UNCHANGED <<exitCode, errMsg>>
     \/ /\ \E left \in {fs.archive, PartialFile} : fs' = [fs EXCEPT !.archive = left]
        /\ MainCatch("EIO")
  /\ UNCHANGED <<argv, inputDoc, options, fs0, geo, cur, written, tileCount, tileCoords>>

\* await writeFile(`${options.output}.json`, JSON.stringify(summary, null, 2) + '\n')
BuildWriteSidecar ==
  /\ UNCHANGED <<serveVars, toolVars>>
  /\ bpc = "sidecar"
  /\ \/ /\ fs' = [fs EXCEPT !.sidecar = [gen |-> "new", tiles |-> <<>>, metadata |-> <<>>,
                                         summary |-> <<Summary>>]]
        /\ bpc' = "done"
        /\ UNCHANGED <<exitCode, errMsg>>
     \/ /\ \E left \in {fs.sidecar, PartialFile} : fs' = [fs EXCEPT !.sidecar = left]
        /\ MainCatch("EIO")
  /\ UNCHANGED <<argv, inputDoc, options, fs0, geo, cur, written, tileCount, tileCoords>>

BuildIdle ==
  /\ argv = <<>>
  /\ inputDoc = Doc(FALSE, FALSE, "", FALSE, <<>>)
  /\ options = NoOptions
  /\ bpc = "idle"
  /\ exitCode = 0
  /\ errMsg = ""
  /\ fs = [dir |-> FALSE, archive |-> NoFile, sidecar |-> NoFile]
  /\ fs0 = fs
  /\ geo = NoGeo
  /\ cur = NoCur
  /\ written = <<>>
  /\ tileCount = 0
  /\ tileCoords = <<>>

BuildStart(argvs, docs, fss) ==
  /\ argv \in argvs
  /\ inputDoc \in docs
  /\ options = NoOptions
  /\ bpc = "start"
  /\ exitCode = 0
  /\ errMsg = ""
  /\ fs \in fss
  /\ fs0 = fs
  /\ geo = NoGeo
  /\ cur = NoCur
  /\ written = <<>>
  /\ tileCount = 0
  /\ tileCoords = <<>>

ServeIdle ==
  /\ handlePromise = 0
  /\ handles = <<>>
  /\ headerPromise = 0
  /\ metadataPromise = 0
  /\ summaryPromise = 0
  /\ loads = <<>>
  /\ reqs = <<>>
  /\ closers = <<>>
  /\ cfg = [id |-> "buildings", hasSummary |-> TRUE]
  /\ shutdown = FALSE
  /\ tool = NoTool

(***************************************************************************)
(* Spec: one run of the build CLI                                          *)
(***************************************************************************)
Init ==
  /\ BuildStart({av \in BuildArgvs : WithinZoomCap(av)}, Docs, FsStates)
  /\ ServeIdle

Next ==
  \/ MainParseArgs
  \/ BuildReadInput
  \/ BuildSkipTile
  \/ BuildWriteTile
  \/ BuildCommit
  \/ BuildMkdir
  \/ BuildWriteArchive
  \/ BuildWriteSidecar

Spec == Init /\ [][Next]_vars

(***************************************************************************)
(* SpecArgs: parseArgs over every command line of at most MaxArgs tokens   *)
(***************************************************************************)
InitArgs ==
  /\ BuildStart(SeqsUpTo(Tokens, MaxArgs), {Doc(FALSE, FALSE, "", FALSE, <<>>)},
                {[dir |-> FALSE, archive |-> NoFile, sidecar |-> NoFile]})
  /\ ServeIdle

NextArgs == MainParseArgs

SpecArgs == InitArgs /\ [][NextArgs]_vars

(***************************************************************************)
(* Properties of the build                                                 *)
(***************************************************************************)
ScannedCoords ==
  {c \in [z : 0..ZoomCap + 1, x : 0..Pow2(ZoomCap + 1) - 1, y : 0..Pow2(ZoomCap + 1) - 1] :
     /\ options # NoOptions
     /\ c.z >= options.minzoom /\ c.z <= options.maxzoom
     /\ LET range == getTileRange(geo.bounds, c.z)
        IN  /\ c.x >= range.minX /\ c.x <= range.maxX
            /\ c.y >= range.minY /\ c.y <= range.maxY}

FeatureCountAt(z, x, y) == Len(getTile(geo.features, z, x, y))

\* C1: every tile handed to writer.writeTileXYZ is one for which getTile
\* returned at least one feature; a coordinate with no feature is never
\* written, never counted in tileCount and never listed in tileCoords (nor
\* is it in the archive file the build leaves on disk).
C1_OnlyNonEmptyTilesWritten ==
  /\ \A i \in 1..Len(written) :
       FeatureCountAt(written[i].z, written[i].x, written[i].y) >= 1
  /\ tileCount = Len(written)
  /\ \A j \in 1..Len(tileCoords) :
       /\ FeatureCountAt(tileCoords[j][1], tileCoords[j][2], tileCoords[j][3]) >= 1
       /\ \E i \in 1..Len(written) :
            <<written[i].z, written[i].x, written[i].y>> = tileCoords[j]
  /\ \A i \in 1..Len(fs.archive.tiles) :
       FeatureCountAt(fs.archive.tiles[i].z, fs.archive.tiles[i].x, fs.archive.tiles[i].y) >= 1

\* a finished build that wrote tiles and whose scan also met an empty tile
C1_Witness ==
  /\ bpc = "done"
  /\ Len(written) >= 2
  /\ Len(tileCoords) >= 1
  /\ \E c \in ScannedCoords : FeatureCountAt(c.z, c.x, c.y) = 0

ZeroTilesMessage == "No tiles generated - check input data and zoom levels"

\* C2: when no tile is written across minzoom..maxzoom the build fails with
\* the explicit zero-tile error and exit code 1, and the output directory,
\* the archive file and the sidecar file are what they were before the run.
C2_ZeroTilesFailWithoutOutput ==
  /\ bpc \in {"mkdir", "archive", "sidecar", "done"} => Len(written) >= 1
  /\ written = <<>> => fs = fs0
  /\ (bpc = "failed" /\ inputDoc.present /\ inputDoc.parses /\ parseArgs(argv).ok
      /\ inputDoc.type = "FeatureCollection" /\ inputDoc.isArray /\ written = <<>>)
       => (errMsg = ZeroTilesMessage /\ exitCode = 1 /\ fs = fs0)

\* the zero-tile failure of a run with a non-empty input (minzoom > maxzoom)
\* over an output location that already holds an archive and a sidecar
C2_Witness ==
  /\ bpc = "failed"
  /\ errMsg = ZeroTilesMessage
  /\ exitCode = 1
  /\ Len(inputDoc.features) >= 1
  /\ options.minzoom > options.maxzoom
  /\ fs0.archive = OldArchive
  /\ fs = fs0

ArgumentError == ~parseArgs(argv).ok
InputError ==
  \/ ~inputDoc.present
  \/ ~inputDoc.parses
  \/ inputDoc.type # "FeatureCollection"
  \/ ~inputDoc.isArray

\* C3: a run whose arguments parseArgs rejects, or whose input file is
\* missing, unparseable, not of type FeatureCollection or without a features
\* array, never gets past reading the input, ends with exit code 1 and
\* leaves the output directory, the archive and the sidecar untouched.
C3_InputErrorsWriteNothing ==
  (ArgumentError \/ InputError) =>
    /\ bpc \in {"start", "read", "failed"}
    /\ fs = fs0
    /\ written = <<>>
    /\ bpc = "failed" => exitCode = 1
    /\ bpc # "failed" => exitCode = 0

\* the build stopped on an input whose features member is not an array,
\* with well-formed arguments and an existing archive and sidecar
C3_Witness ==
  /\ bpc = "failed"
  /\ ~ArgumentError
  /\ inputDoc.type = "FeatureCollection" /\ ~inputDoc.isArray
  /\ errMsg = "Input must be a valid GeoJSON FeatureCollection"
  /\ exitCode = 1
  /\ fs0.archive = OldArchive
  /\ fs = fs0

\* C4 (as claimed): in every state during or after a build the archive of
\* this build is on disk exactly when the sidecar of this build is.
C4_SidecarAtomicWithArchive ==
  (fs.archive.gen = "new") <=> (fs.sidecar.gen = "new")

(***************************************************************************)
(* Properties of parseArgs                                                 *)
(***************************************************************************)
\* the options the usage text of the script documents
BuildOptions == {"input", "output", "layer", "minzoom", "maxzoom"}

\* C5 (as claimed): once parseArgs has run, a command line holding any
\* --key whose key is not one of input, output, layer, minzoom, maxzoom has
\* made it raise: no options object was returned.
C5_UnknownOptionsFatal ==
  bpc # "start" =>
    \A i \in 1..Len(argv) :
      (StartsWithDashes(argv[i]) /\ Slice2(argv[i]) \notin BuildOptions)
        => (bpc = "failed" /\ options = NoOptions)

\* C6 (as claimed): once parseArgs has run, a --minzoom or --maxzoom whose
\* value is missing or is not a number has made it raise.
C6_NumericOptionsChecked ==
  bpc # "start" =>
    \A i \in 1..Len(argv) :
      (/\ StartsWithDashes(argv[i])
       /\ Slice2(argv[i]) \in {"minzoom", "maxzoom"}
       /\ \/ i = Len(argv)
          \/ StartsWithDashes(argv[i + 1])
          \/ argv[i + 1].body \notin NumericLiterals)
        => bpc = "failed"

(***************************************************************************)
(* Determinism of the build                                                *)
(***************************************************************************)
\* what the command line and the input file alone determine
InputOptions == parseArgs(argv).args
InputBounds == turfBbox(inputDoc.features)
InputValid ==
  /\ parseArgs(argv).ok
  /\ inputDoc.present /\ inputDoc.parses /\ IsFeatureCollection(inputDoc)
\* the tiles of minzoom..maxzoom in which a feature of the input lies
InputCoords ==
  {[z |-> z, x |-> lonLatToTile(inputDoc.features[i].lon, inputDoc.features[i].lat, z).x,
    y |-> lonLatToTile(inputDoc.features[i].lon, inputDoc.features[i].lat, z).y] :
     z \in InputOptions.minzoom..InputOptions.maxzoom, i \in 1..Len(inputDoc.features)}
\* z, then x, then y ascending
ScanOrder(a, b) ==
  \/ a.z < b.z
  \/ a.z = b.z /\ a.x < b.x
  \/ a.z = b.z /\ a.x = b.x /\ a.y < b.y

\* C14: the tile writes and the committed metadata of a build are fixed by
\* its command line and its input file alone, whatever the output location
\* held before and whichever writes fail: the i-th write is for the i-th
\* coordinate, in z, x, y order, among the tiles of minzoom..maxzoom in which
\* a feature of the input lies, with the ids of that tile's features in input order under the
\* layer name; a finished scan has written all of them; and the archive left
\* on disk holds exactly these writes and the metadata of the options and of
\* the input's bounds.  Two builds of one input therefore leave equal archives.
C14_BuildDeterminedByInput ==
  InputValid =>
    /\ \A i \in 1..Len(written) :
         LET w == written[i]
             c == [z |-> w.z, x |-> w.x, y |-> w.y]
             tile == getTile(inputDoc.features, w.z, w.x, w.y)
         IN  /\ c \in InputCoords
             /\ Cardinality({d \in InputCoords : ScanOrder(d, c)}) = i - 1
             /\ w.data.layer = InputOptions.layer
             /\ w.data.ids = [k \in 1..Len(tile) |-> tile[k].pnu]
    /\ bpc \in {"check", "mkdir", "archive", "sidecar", "done"} =>
         Len(written) = Cardinality(InputCoords)
    /\ fs.archive.gen = "new" =>
         /\ fs.archive.tiles = written
         /\ Len(fs.archive.tiles) = Cardinality(InputCoords)
         /\ LET md == fs.archive.metadata[1]
            IN  /\ md.name = InputOptions.name
                /\ md.description = InputOptions.description
                /\ md.minzoom = InputOptions.minzoom
                /\ md.maxzoom = InputOptions.maxzoom
                /\ md.summaryzoom = Min(Max(InputOptions.summaryzoom, InputOptions.minzoom),
                                        InputOptions.maxzoom)
                /\ md.bounds = InputBounds
                /\ md.vector_layers[1].id = InputOptions.layer
                /\ md.vector_layers[1].fields = << <<"pnu", "String">> >>

\* a finished build over an older archive that wrote several tiles, one of
\* them with two features
C14_Witness ==
  /\ bpc = "done"
  /\ fs0.archive = OldArchive
  /\ fs.archive.gen = "new"
  /\ Len(written) >= 2
  /\ \E i \in 1..Len(written) : Len(written[i].data.ids) = 2

(***************************************************************************)
(* The tile server: NodeFileSource                                         *)
(***************************************************************************)
\* open(this.path, 'r'): p is the state of the promise, os the state of the
\* file handle it resolves to ("open", "closing" once handle.close() has been
\* called, "closed"; a further handle.close() on it changes nothing)
\* mutant: the archive is opened for reading and writing
NewHandle_readWrite == [p |-> "pending", os |-> "none", flags |-> "r+"]
NewHandle == [p |-> "pending", os |-> "none", flags |-> "r"]

\* what opening a file with the given flags does to the file: 'w' and 'w+'
\* truncate it, the other flags leave it as it is
OpenEffect(flags, file) == IF flags \in {"w", "w+"} THEN PartialFile ELSE file

\* mutant: getHandle opens the file without looking at handlePromise
NoHandlePromise_unchecked(hp) == TRUE
\* !this.handlePromise
NoHandlePromise(hp) == hp = 0

\* getHandle(): the handles and handlePromise after the call
HandlesAfterGetHandle ==
  IF NoHandlePromise(handlePromise) THEN Append(handles, NewHandle) ELSE handles
PromiseAfterGetHandle ==
  IF NoHandlePromise(handlePromise) THEN Len(handles) + 1 ELSE handlePromise

\* an open or a read has failed: every request then in progress has seen a
\* failing byte source
AfterIoFailure(rs) ==
  [r \in 1..Len(rs) |-> IF rs[r].pc # "done" THEN [rs[r] EXCEPT !.cleanIo = FALSE] ELSE rs[r]]

\* open() settles
OpenSettle(h, ok) ==
  /\ h \in 1..Len(handles)
  /\ handles[h].p = "pending"
  /\ handles' = [handles EXCEPT ![h] = IF ok THEN [@ EXCEPT !.p = "resolved", !.os = "open"]
                                            ELSE [@ EXCEPT !.p = "rejected"]]
  /\ reqs' = IF ok THEN reqs ELSE AfterIoFailure(reqs)
  /\ fs' = IF ok THEN [fs EXCEPT !.archive = OpenEffect(handles[h].flags, @)] ELSE fs
  /\ UNCHANGED <<handlePromise, headerPromise, metadataPromise, summaryPromise, loads,
                 closers, cfg, shutdown>>
  /\ UNCHANGED <<argv, inputDoc, options, bpc, exitCode, errMsg, fs0, geo, cur, written,
                 tileCount, tileCoords>>
  /\ UNCHANGED toolVars

\* close() is invoked (the http server's 'close' event, or a further call)
CloseInvoke ==
  /\ Len(closers) < MaxClosers
  /\ shutdown' = TRUE
  /\ closers' = Append(closers,
                       IF handlePromise # 0 THEN [pc |-> "awaitHandle", h |-> handlePromise]
                                            ELSE [pc |-> "done", h |-> 0])
  /\ UNCHANGED <<handlePromise, handles, headerPromise, metadataPromise, summaryPromise,
                 loads, reqs, cfg>>
  /\ UNCHANGED <<buildVars, toolVars>>

\* const handle = await this.handlePromise; then handle.close() is called
CloseHandleSettled(c) ==
  /\ c \in 1..Len(closers)
  /\ closers[c].pc = "awaitHandle"
  /\ LET h == closers[c].h
     IN  /\ handles[h].p # "pending"
         /\ IF handles[h].p = "resolved"
              THEN /\ handles' = [handles EXCEPT ![h].os = IF @ = "open" THEN "closing" ELSE @]
                   /\ closers' = [closers EXCEPT ![c].pc = "closing"]
              ELSE /\ closers' = [closers EXCEPT ![c].pc = "rejected"]
                   /\ UNCHANGED handles
  /\ UNCHANGED <<handlePromise, headerPromise, metadataPromise, summaryPromise, loads, reqs,
                 cfg, shutdown>>
  /\ UNCHANGED <<buildVars, toolVars>>

\* handle.close() has completed; this.handlePromise = null
CloseDone(c) ==
  /\ c \in 1..Len(closers)
  /\ closers[c].pc = "closing"
  /\ handles' = [handles EXCEPT ![closers[c].h].os = "closed"]
  /\ handlePromise' = 0
  /\ closers' = [closers EXCEPT ![c].pc = "done"]
  /\ UNCHANGED <<headerPromise, metadataPromise, summaryPromise, loads, reqs, cfg, shutdown>>
  /\ UNCHANGED <<buildVars, toolVars>>

(***************************************************************************)
(* The tile server: createPmtilesHandlers                                  *)
(***************************************************************************)
\* a call of archive.getHeader / getMetadata / getZxy or of the sidecar's
\* readFile.  An archive call runs source.getBytes (and with it getHandle)
\* before it first suspends: st is "awaitHandle" (inside getBytes), then
\* "resolved" or "rejected"; getHeader passes through "decode" (the bytes are
\* read, the root directory is being decompressed) before it resolves, and
\* the caller's next getBytes comes only after that.  The sidecar's readFile
\* is "reading" until it settles.
NewLoad(kind, st, h, present) == [kind |-> kind, st |-> st, h |-> h, present |-> present]

Settled(l) == loads[l].st \in {"resolved", "rejected"}

\* mutant: the cached promise is not consulted, every call starts a fetch
NoPromise_always(promise) == TRUE
\* !headerPromise, !metadataPromise, !summaryPromise
NoPromise(promise) == promise = 0

\* payload.length of the bytes of an encoded tile
ByteLength(data) == 1 + Len(data.ids)

\* a middleware invocation.  coord is z, x, y of a tile request; data the bytes
\* the archive holds for it (NoBytes if none); payload what res.end was given;
\* contentLength the Content-Length header (-1 while not set)
NoBytes == [layer |-> "", ids |-> <<>>]
NewReq(kind, present) ==
  [kind |-> kind, present |-> present, pc |-> "done", hload |-> 0, load |-> 0,
   statusCode |-> 200, ended |-> 0, body |-> "none", headers |-> {}, nextCalls |-> 0,
   logged |-> <<>>, cleanIo |-> TRUE, coord |-> <<>>, data |-> NoBytes,
   payload |-> NoBytes, contentLength |-> -1,
   after500 |-> \E q \in 1..Len(reqs) : reqs[q].kind = "tile" /\ reqs[q].statusCode = 500]

CanArrive == ~shutdown /\ Len(reqs) < MaxReqs

\* mutant: the middleware answers an unknown path itself with 404
ReqPassThrough_notFound(kind) ==
  /\ CanArrive
  /\ kind \in {"nourl", "other"} \/ (kind = "summary" /\ ~cfg.hasSummary)
  /\ reqs' = Append(reqs, [NewReq(kind, FALSE) EXCEPT !.statusCode = 404, !.ended = 1])
  /\ UNCHANGED <<handlePromise, handles, headerPromise, metadataPromise, summaryPromise,
                 loads, closers, cfg, shutdown>>
  /\ UNCHANGED <<buildVars, toolVars>>
\* no url, or a path that is neither /metadata.json, /summary.json (with a
\* sidecar configured) nor z/x/y.pbf: next()
ReqPassThrough(kind) ==
  /\ CanArrive
  /\ kind \in {"nourl", "other"} \/ (kind = "summary" /\ ~cfg.hasSummary)
  /\ reqs' = Append(reqs, [NewReq(kind, FALSE) EXCEPT !.nextCalls = 1])
  /\ UNCHANGED <<handlePromise, handles, headerPromise, metadataPromise, summaryPromise,
                 loads, closers, cfg, shutdown>>
  /\ UNCHANGED <<buildVars, toolVars>>

\* /metadata.json: await getMetadata()
ReqMetadata ==
  /\ CanArrive
  /\ IF NoPromise(metadataPromise)
       THEN /\ handles' = HandlesAfterGetHandle
            /\ handlePromise' = PromiseAfterGetHandle
            /\ loads' = Append(loads, NewLoad("metadata", "awaitHandle", handlePromise', FALSE))
            /\ metadataPromise' = Len(loads) + 1
       ELSE UNCHANGED <<handles, handlePromise, loads, metadataPromise>>
  /\ reqs' = Append(reqs, [NewReq("metadata", FALSE) EXCEPT !.pc = "awaitJson",
                                                            !.load = metadataPromise'])
  /\ UNCHANGED <<headerPromise, summaryPromise, closers, cfg, shutdown>>
  /\ UNCHANGED <<buildVars, toolVars>>

\* /summary.json with a sidecar configured: await getSummary()
ReqSummary ==
  /\ CanArrive
  /\ cfg.hasSummary
  /\ IF NoPromise(summaryPromise)
       THEN /\ loads' = Append(loads, NewLoad("summary", "reading", 0, FALSE))
            /\ summaryPromise' = Len(loads) + 1
       ELSE UNCHANGED <<loads, summaryPromise>>
  /\ reqs' = Append(reqs, [NewReq("summary", FALSE) EXCEPT !.pc = "awaitJson",
                                                           !.load = summaryPromise'])
  /\ UNCHANGED <<handlePromise, handles, headerPromise, metadataPromise, closers, cfg,
                 shutdown>>
  /\ UNCHANGED <<buildVars, toolVars>>

\* /z/x/y.pbf for the coordinate c, for which the archive holds data (present)
\* or nothing: await getHeader()
ReqTileAt(c, present, data) ==
  /\ CanArrive
  /\ IF NoPromise(headerPromise)
       THEN /\ handles' = HandlesAfterGetHandle
            /\ handlePromise' = PromiseAfterGetHandle
            /\ loads' = Append(loads, NewLoad("header", "awaitHandle", handlePromise', FALSE))
            /\ headerPromise' = Len(loads) + 1
       ELSE UNCHANGED <<handles, handlePromise, loads, headerPromise>>
  /\ reqs' = Append(reqs, [NewReq("tile", present) EXCEPT !.pc = "awaitHeader",
                                                          !.hload = headerPromise',
                                                          !.coord = c, !.data = data])
  /\ UNCHANGED <<metadataPromise, summaryPromise, closers, cfg, shutdown>>
  /\ UNCHANGED <<buildVars, toolVars>>

\* the archive of SpecServe and SpecShutdown: it holds one tile, at HeldCoord
HeldCoord == <<1, 0, 0>>
MissingCoord == <<1, 1, 1>>
HeldBytes == EncodeTile("buildings", <<Feature("p1", 0, 0)>>)
ReqTile(present) ==
  IF present THEN ReqTileAt(HeldCoord, TRUE, HeldBytes)
             ELSE ReqTileAt(MissingCoord, FALSE, NoBytes)

\* getBytes: the handle promise has settled and handle.read has run.  A failed
\* open or read rejects the archive call; getMetadata's catch handler then
\* clears metadataPromise.
LoadRead(l, ok) ==
  /\ l \in 1..Len(loads)
  /\ loads[l].st = "awaitHandle"
  /\ LET h == handles[loads[l].h]
         good == ok /\ h.p = "resolved" /\ h.os = "open"
     IN  /\ h.p # "pending"
         /\ loads' = [loads EXCEPT ![l].st = IF ~good THEN "rejected"
                                             ELSE IF loads[l].kind = "header" THEN "decode"
                                             ELSE "resolved"]
         /\ metadataPromise' = IF loads[l].kind = "metadata" /\ ~good THEN 0
                               ELSE metadataPromise
  /\ reqs' = IF ok THEN reqs ELSE AfterIoFailure(reqs)
  /\ UNCHANGED <<handlePromise, handles, headerPromise, summaryPromise, closers, cfg,
                 shutdown>>
  /\ UNCHANGED <<buildVars, toolVars>>

\* the header is parsed and the root directory decompressed: getHeader resolves
LoadDecoded(l) ==
  /\ l \in 1..Len(loads)
  /\ loads[l].st = "decode"
  /\ loads' = [loads EXCEPT ![l].st = "resolved"]
  /\ UNCHANGED <<handlePromise, handles, headerPromise, metadataPromise, summaryPromise,
                 reqs, closers, cfg, shutdown>>
  /\ UNCHANGED <<buildVars, toolVars>>

\* mutant: the catch of getSummary does not reset summaryPromise
SummaryRead_keepsRejected(l, ok) ==
  /\ l \in 1..Len(loads)
  /\ loads[l].st = "reading"
  /\ loads' = [loads EXCEPT ![l].st = IF ok THEN "resolved" ELSE "rejected"]
  /\ reqs' = IF ok THEN reqs ELSE AfterIoFailure(reqs)
  /\ UNCHANGED <<handlePromise, handles, headerPromise, metadataPromise, summaryPromise,
                 closers, cfg, shutdown>>
  /\ UNCHANGED <<buildVars, toolVars>>
\* readFile(summaryPath).then(JSON.parse) settles; the catch handler clears the cache
SummaryRead(l, ok) ==
  /\ l \in 1..Len(loads)
  /\ loads[l].st = "reading"
  /\ loads' = [loads EXCEPT ![l].st = IF ok THEN "resolved" ELSE "rejected"]
  /\ summaryPromise' = IF ok THEN summaryPromise ELSE 0
  /\ reqs' = IF ok THEN reqs ELSE AfterIoFailure(reqs)
  /\ UNCHANGED <<handlePromise, handles, headerPromise, metadataPromise, closers, cfg,
                 shutdown>>
  /\ UNCHANGED <<buildVars, toolVars>>

\* the catch blocks of the middleware: logger.error, statusCode = 500, res.end()
\* mutant: the catch block answers 500 without logging
Respond500_silent(req, what) ==
  [req EXCEPT !.pc = "done", !.statusCode = 500, !.ended = @ + 1]
Respond500(req, what) ==
  [req EXCEPT !.pc = "done", !.statusCode = 500, !.ended = @ + 1,
              !.logged = Append(@, <<what, cfg.id, req.coord>>)]

\* the sidecar file as the build writes it, JSON.stringify(summary, null, 2)
\* and a newline, and the metadata object archive.getMetadata() resolves to
SidecarContents == [fmt |-> "pretty", value |-> "summary"]
ArchiveMetadataValue == "metadata"
\* JSON.parse(contents)
SidecarParse(contents) == contents.value
\* mutant: the promise is serialised instead of the value it resolves to
JSONstringify_unawaited(value) == [fmt |-> "compact", value |-> "{}"]
\* JSON.stringify(value)
JSONstringify(value) == [fmt |-> "compact", value |-> value]

\* await getMetadata() / await getSummary() returns or throws
JsonSettled(r) ==
  /\ r \in 1..Len(reqs)
  /\ reqs[r].pc = "awaitJson"
  /\ Settled(reqs[r].load)
  /\ reqs' = [reqs EXCEPT ![r] =
       IF loads[reqs[r].load].st = "resolved"
         THEN [@ EXCEPT !.pc = "done", !.ended = @ + 1, !.body = "json",
                        !.headers = {"Content-Type", "Cache-Control"},
                        !.payload = JSONstringify(IF reqs[r].kind = "summary"
                                                    THEN SidecarParse(SidecarContents)
                                                    ELSE ArchiveMetadataValue)]
         ELSE Respond500(@, reqs[r].kind)]
  /\ UNCHANGED <<handlePromise, handles, headerPromise, metadataPromise, summaryPromise,
                 loads, closers, cfg, shutdown>>
  /\ UNCHANGED <<buildVars, toolVars>>

\* await getHeader() returns, and archive.getZxy(z, x, y) is called and
\* reaches source.getBytes; or await getHeader() throws
TileHeaderSettled(r) ==
  /\ r \in 1..Len(reqs)
  /\ reqs[r].pc = "awaitHeader"
  /\ Settled(reqs[r].hload)
  /\ IF loads[reqs[r].hload].st = "resolved"
       THEN /\ handles' = HandlesAfterGetHandle
            /\ handlePromise' = PromiseAfterGetHandle
            /\ loads' = Append(loads, NewLoad("zxy", "awaitHandle", handlePromise',
                                              reqs[r].present))
            /\ reqs' = [reqs EXCEPT ![r].pc = "awaitZxy", ![r].load = Len(loads) + 1]
       ELSE /\ reqs' = [reqs EXCEPT ![r] = Respond500(@, "tile")]
            /\ UNCHANGED <<handles, handlePromise, loads>>
  /\ UNCHANGED <<headerPromise, metadataPromise, summaryPromise, closers, cfg, shutdown>>
  /\ UNCHANGED <<buildVars, toolVars>>

\* mutant: a coordinate without a tile is answered like a failed lookup
TileResponse_missIsError(req, found) ==
  IF ~found
    THEN [req EXCEPT !.pc = "done", !.statusCode = 500, !.ended = @ + 1]
    ELSE [req EXCEPT !.pc = "done", !.ended = @ + 1, !.body = "tile",
                     !.headers = {"Content-Type", "Cache-Control", "Content-Length"}]
\* mutant: the tile is sent without the Content-Length header
TileResponse_noContentLength(req, found) ==
  IF ~found
    THEN [req EXCEPT !.pc = "done", !.statusCode = 204, !.ended = @ + 1]
    ELSE [req EXCEPT !.pc = "done", !.ended = @ + 1, !.body = "tile",
                     !.headers = {"Content-Type", "Cache-Control"},
                     !.payload = req.data]
\* if (!tile) { 204 } else { headers, res.end(payload) }
TileResponse(req, found) ==
  IF ~found
    THEN [req EXCEPT !.pc = "done", !.statusCode = 204, !.ended = @ + 1]
    ELSE [req EXCEPT !.pc = "done", !.ended = @ + 1, !.body = "tile",
                     !.headers = {"Content-Type", "Cache-Control", "Content-Length"},
                     !.payload = req.data, !.contentLength = ByteLength(req.data)]

\* await archive.getZxy(z, x, y) returns a tile, returns nothing, or throws
TileZxySettled(r) ==
  /\ r \in 1..Len(reqs)
  /\ reqs[r].pc = "awaitZxy"
  /\ Settled(reqs[r].load)
  /\ reqs' = [reqs EXCEPT ![r] =
       IF loads[reqs[r].load].st = "resolved"
         THEN TileResponse(@, loads[reqs[r].load].present)
         ELSE Respond500(@, "tile")]
  /\ UNCHANGED <<handlePromise, handles, headerPromise, metadataPromise, summaryPromise,
                 loads, closers, cfg, shutdown>>
  /\ UNCHANGED <<buildVars, toolVars>>

(***************************************************************************)
(* SpecServe: one archive handler, its requests and its shutdown           *)
(***************************************************************************)
InitServe ==
  /\ BuildIdle
  /\ handlePromise = 0
  /\ handles = <<>>
  /\ headerPromise = 0
  /\ metadataPromise = 0
  /\ summaryPromise = 0
  /\ loads = <<>>
  /\ reqs = <<>>
  /\ closers = <<>>
  /\ cfg \in {[id |-> "seoul", hasSummary |-> FALSE], [id |-> "buildings", hasSummary |-> TRUE]}
  /\ shutdown = FALSE
  /\ tool = NoTool

ServeStep ==
  \/ \E kind \in {"nourl", "other", "summary"} : ReqPassThrough(kind)
  \/ ReqMetadata
  \/ ReqSummary
  \/ \E present \in BOOLEAN : ReqTile(present)
  \/ \E l \in 1..Len(loads), ok \in BOOLEAN : LoadRead(l, ok)
  \/ \E l \in 1..Len(loads) : LoadDecoded(l)
  \/ \E l \in 1..Len(loads), ok \in BOOLEAN : SummaryRead(l, ok)
  \/ \E h \in 1..Len(handles), ok \in BOOLEAN : OpenSettle(h, ok)
  \/ \E r \in 1..Len(reqs) : JsonSettled(r)
  \/ \E r \in 1..Len(reqs) : TileHeaderSettled(r)
  \/ \E r \in 1..Len(reqs) : TileZxySettled(r)

NextServe == ServeStep

SpecServe == InitServe /\ [][NextServe]_vars

(***************************************************************************)
(* SpecShutdown: the same handler with the server closing                  *)
(***************************************************************************)
NextShutdown ==
  \/ ServeStep
  \/ CloseInvoke
  \/ \E c \in 1..Len(closers) : CloseHandleSettled(c)
  \/ \E c \in 1..Len(closers) : CloseDone(c)

SpecShutdown == InitServe /\ [][NextShutdown]_vars

(***************************************************************************)
(* Properties of the tile server                                           *)
(***************************************************************************)
HeaderFailed(q) == loads[q.hload].st = "rejected"
LookupFailed(q) == q.load # 0 /\ loads[q.load].st = "rejected"
LookupFound(q) == q.load # 0 /\ loads[q.load].st = "resolved" /\ loads[q.load].present
LookupMissed(q) == q.load # 0 /\ loads[q.load].st = "resolved" /\ ~loads[q.load].present

\* C7: an answered request /z/x/y.pbf has status 204 and no body exactly
\* when archive.getZxy returned no tile, status 200 and the tile as body
\* exactly when it returned a tile, and status 500 exactly when getHeader or
\* getZxy rejected; it is ended once and never passed to next().
C7_TileOutcomesDistinct ==
  \A r \in 1..Len(reqs) :
    LET q == reqs[r]
    IN  q.kind = "tile" =>
          /\ q.nextCalls = 0
          /\ q.pc # "done" => q.ended = 0
          /\ q.pc = "done" =>
               /\ q.ended = 1
               /\ (q.statusCode = 204) <=> LookupMissed(q)
               /\ (q.statusCode = 200) <=> LookupFound(q)
               /\ (q.statusCode = 500) <=> (HeaderFailed(q) \/ LookupFailed(q))
               /\ (q.body = "tile") <=> (q.statusCode = 200)
               /\ q.body \in {"tile", "none"}

\* a request for a coordinate without data answered 204 and a request whose
\* lookup failed answered 500, from the same handler
C7_Witness ==
  \E r1, r2 \in 1..Len(reqs) :
    /\ reqs[r1].kind = "tile" /\ reqs[r1].pc = "done" /\ reqs[r1].statusCode = 204
    /\ ~reqs[r1].present
    /\ reqs[r2].kind = "tile" /\ reqs[r2].pc = "done" /\ reqs[r2].statusCode = 500
    /\ LookupFailed(reqs[r2])

\* C8 (as claimed): a request for a coordinate the archive holds, received
\* after an earlier tile request was answered 500 and during which no open
\* and no read fails, is answered 200.
C8_FailureAffectsOnlyItsRequest ==
  \A r \in 1..Len(reqs) :
    (/\ reqs[r].kind = "tile"
     /\ reqs[r].pc = "done"
     /\ reqs[r].present
     /\ reqs[r].after500
     /\ reqs[r].cleanIo)
      => reqs[r].statusCode = 200

LiveLoads(kind) == {l \in 1..Len(loads) : loads[l].kind = kind /\ loads[l].st # "rejected"}
CachedPromise(kind) ==
  CASE kind = "header" -> headerPromise
    [] kind = "metadata" -> metadataPromise
    [] kind = "summary" -> summaryPromise

\* C9: of the archive.getHeader() calls, of the archive.getMetadata() calls
\* and of the sidecar reads, at most one is in flight or has succeeded; it is
\* the one the cached promise holds, and every request still waiting for a
\* fetch that has not failed waits for that one.
C9_SingleFlight ==
  \A kind \in {"header", "metadata", "summary"} :
    /\ Cardinality(LiveLoads(kind)) <= 1
    /\ \A l \in LiveLoads(kind) : CachedPromise(kind) = l
    /\ \A r \in 1..Len(reqs) :
         (reqs[r].pc = "awaitJson" /\ reqs[r].kind = kind /\ ~Settled(reqs[r].load))
           => reqs[r].load \in LiveLoads(kind)

\* two metadata requests waiting for the same fetch while it is in flight
C9_Witness ==
  \E r1, r2 \in 1..Len(reqs) :
    /\ r1 # r2
    /\ reqs[r1].kind = "metadata" /\ reqs[r2].kind = "metadata"
    /\ reqs[r1].pc = "awaitJson" /\ reqs[r2].pc = "awaitJson"
    /\ reqs[r1].load = reqs[r2].load
    /\ loads[reqs[r1].load].st = "awaitHandle"
    /\ Cardinality(LiveLoads("metadata")) = 1

\* C10 (as claimed): once a close() has completed, no file handle is open
\* or being closed and no open is in progress.
C10_NoHandleAfterShutdown ==
  (\E c \in 1..Len(closers) : closers[c].pc = "done") =>
    \A h \in 1..Len(handles) :
      handles[h].p # "pending" /\ handles[h].os \notin {"open", "closing"}

\* a request the middleware does not route: no url, a path of another shape,
\* or /summary.json on a handler without a sidecar
Unrouted(q) == q.kind \in {"nourl", "other"} \/ (q.kind = "summary" /\ ~cfg.hasSummary)

\* C11: a request with no url, or whose path is none of /metadata.json,
\* /summary.json (sidecar configured) and digits/digits/digits.pbf, has next()
\* called exactly once, keeps the default status, gets no header, no body and
\* no res.end(), logs nothing, and its arrival starts no archive call, opens
\* no handle and touches none of the cached promises.
C11_UnknownPathsPassThrough ==
  [][\A r \in 1..Len(reqs') :
       Unrouted(reqs'[r]) =>
         /\ reqs'[r].nextCalls = 1
         /\ reqs'[r].statusCode = 200
         /\ reqs'[r].headers = {}
         /\ reqs'[r].body = "none"
         /\ reqs'[r].ended = 0
         /\ reqs'[r].logged = <<>>
         /\ reqs'[r].load = 0 /\ reqs'[r].hload = 0
         /\ r > Len(reqs) =>
              /\ loads' = loads
              /\ handles' = handles
              /\ <<handlePromise', headerPromise', metadataPromise', summaryPromise'>>
                   = <<handlePromise, headerPromise, metadataPromise, summaryPromise>>]_vars

\* a passed-through /summary.json on the handler without sidecar, next to a
\* tile request the same middleware is serving
C11_Witness ==
  \E r1, r2 \in 1..Len(reqs) :
    /\ reqs[r1].kind = "tile" /\ reqs[r1].pc # "done"
    /\ r2 > r1
    /\ reqs[r2].kind = "summary" /\ ~cfg.hasSummary /\ reqs[r2].nextCalls = 1

\* C12: a tile request whose getHeader() or getZxy() rejected is answered by
\* the catch block: exactly one logger.error naming the archive id and the
\* request's z/x/y, status 500, one res.end() without body or payload, no
\* next(); the request is finished there, nothing is thrown further.
C12_TileFailureLoggedAnd500 ==
  \A r \in 1..Len(reqs) :
    LET q == reqs[r]
    IN  /\ (q.kind = "tile" /\ q.pc = "done" /\ (HeaderFailed(q) \/ LookupFailed(q))) =>
             /\ q.logged = << <<"tile", cfg.id, q.coord>> >>
             /\ q.coord \in {HeldCoord, MissingCoord}
             /\ q.statusCode = 500
             /\ q.ended = 1
             /\ q.body = "none" /\ q.payload = NoBytes
             /\ q.nextCalls = 0
        /\ (q.kind = "tile" /\ q.pc = "awaitHeader" /\ HeaderFailed(q)) =>
             ENABLED TileHeaderSettled(r)
        /\ (q.kind = "tile" /\ q.pc = "awaitZxy" /\ LookupFailed(q)) =>
             ENABLED TileZxySettled(r)

\* a request answered from the catch block after getZxy() rejected on a
\* failed read of the open archive, while the header had been fetched
C12_Witness ==
  \E r \in 1..Len(reqs) :
    /\ reqs[r].kind = "tile" /\ reqs[r].pc = "done"
    /\ ~HeaderFailed(reqs[r]) /\ LookupFailed(reqs[r])
    /\ handles[loads[reqs[r].load].h].p = "resolved"
    /\ Len(reqs[r].logged) = 1

(***************************************************************************)
(* SpecRoundTrip: a build, then tile requests served from its archive      *)
(***************************************************************************)
\* the entries of the archive file for the coordinate c
EntriesAt(tiles, c) == {i \in 1..Len(tiles) : <<tiles[i].z, tiles[i].x, tiles[i].y>> = c}
\* archive.getZxy(z, x, y) on an archive file with these tile entries
ArchiveHolds(tiles, c) == EntriesAt(tiles, c) # {}
ArchiveData(tiles, c) ==
  IF ArchiveHolds(tiles, c) THEN tiles[SetMax(EntriesAt(tiles, c))].data ELSE NoBytes

\* the coordinates the build wrote, and one at a zoom it did not scan
WrittenCoords == {<<written[i].z, written[i].x, written[i].y>> : i \in 1..Len(written)}
RequestCoords ==
  IF bpc = "done" THEN WrittenCoords \cup {<<options.maxzoom + 1, 0, 0>>} ELSE {}

\* a tile request to the server once the build has left its archive on disk;
\* the client of this specification sends its requests one after the other
ReqBuiltTile(c) ==
  /\ bpc = "done"
  /\ \A r \in 1..Len(reqs) : reqs[r].pc = "done"
  /\ fs.archive.gen = "new"
  /\ ReqTileAt(c, ArchiveHolds(fs.archive.tiles, c), ArchiveData(fs.archive.tiles, c))

\* inputs of the round trip: both zoom options given, and a collection of
\* distinct features listed from west to east
RoundTripArgvs ==
  {<<Tok(TRUE, "minzoom"), a, Tok(TRUE, "maxzoom"), b>> : a, b \in ZoomValues}
RoundTripDocs ==
  {d \in Docs : /\ IsFeatureCollection(d)
                /\ d.features # <<>>
                /\ \A i, j \in 1..Len(d.features) :
                     i < j => d.features[i].lon < d.features[j].lon}

InitRoundTrip ==
  /\ BuildStart({av \in RoundTripArgvs : WithinZoomCap(av)}, RoundTripDocs,
                {[dir |-> TRUE, archive |-> NoFile, sidecar |-> NoFile]})
  /\ ServeIdle

NextRoundTrip ==
  \/ Next
  \/ \E c \in RequestCoords : ReqBuiltTile(c)
  \/ \E h \in 1..Len(handles), ok \in BOOLEAN : OpenSettle(h, ok)
  \/ \E l \in 1..Len(loads), ok \in BOOLEAN : LoadRead(l, ok)
  \/ \E l \in 1..Len(loads) : LoadDecoded(l)
  \/ \E r \in 1..Len(reqs) : TileHeaderSettled(r)
  \/ \E r \in 1..Len(reqs) : TileZxySettled(r)

SpecRoundTrip == InitRoundTrip /\ [][NextRoundTrip]_vars

\* no open and no read of the server has failed
ServeFailureFree ==
  /\ \A h \in 1..Len(handles) : handles[h].p # "rejected"
  /\ \A l \in 1..Len(loads) : loads[l].st # "rejected"

JsonTexts == {"invalid", "null", "number", "object", "layersNotArray", "nullLayer",
              "nullFields"}
InspectFiles ==
  [readable : BOOLEAN, headerOk : BOOLEAN, jsonMetadataLength : {0, 1},
   internalCompression : {"None", "Gzip", "Brotli", "Zstd"}, wellCompressed : BOOLEAN,
   text : JsonTexts]
\* the archive a successful build leaves
BuiltArchiveFile ==
  [readable |-> TRUE, headerOk |-> TRUE, jsonMetadataLength |-> 1,
   internalCompression |-> "Gzip", wellCompressed |-> TRUE, text |-> "object"]

\* JSON.parse(decoded): the value, by its kind
JsonParse(text) ==
  IF text = "invalid" THEN [ok |-> FALSE, err |-> "Unexpected token"]
  ELSE [ok |-> TRUE, value |-> text]
\* a value that is falsy: JSON null (0, false and "" alike)
FalsyJson(value) == value = "null"

\* parseMetadataBytes(arrayBuffer, header): returns a value, returns null, or throws
parseMetadataBytes(file) ==
  IF file.jsonMetadataLength = 0 THEN [ok |-> TRUE, value |-> "null"]
  ELSE IF file.internalCompression \in {"Gzip", "Brotli"} /\ ~file.wellCompressed
         THEN [ok |-> FALSE, err |-> "incorrect header check"]
  ELSE IF file.internalCompression = "Zstd"
         THEN JsonParse("invalid")
  ELSE JsonParse(file.text)

\* extractLayerSummaries(metadata): the list of layer summaries, or a TypeError
extractLayerSummaries(value) ==
  CASE value = "nullLayer" -> [ok |-> FALSE, err |-> "Cannot read properties of null"]
    [] value = "nullFields" -> [ok |-> FALSE, err |-> "Cannot convert undefined or null to object"]
    [] value = "object" -> [ok |-> TRUE, layers |-> <<"layer">>]
    [] OTHER -> [ok |-> TRUE, layers |-> <<>>]

\* main().catch of a diagnostic script
ToolCatch(msg) == [tool EXCEPT !.pc = "done", !.exitCode = 1, !.stderr = msg]

\* node inspectPmtiles.mjs <file>
InspectStart(file) ==
  /\ tool = NoTool
  /\ tool' = [name |-> "inspect", pc |-> "read", file |-> file, metadata |-> "null",
              parseError |-> "null", out |-> <<>>, stderr |-> "", exitCode |-> 0]
  /\ UNCHANGED <<buildVars, serveVars>>

\* readFile(filePath) and bytesToHeader(arrayBuffer.slice(0, HEADER_LENGTH))
InspectRead ==
  /\ tool.name = "inspect" /\ tool.pc = "read"
  /\ tool' = IF ~tool.file.readable THEN ToolCatch("ENOENT")
             ELSE IF ~tool.file.headerOk THEN ToolCatch("Wrong magic number for PMTiles archive")
             ELSE [tool EXCEPT !.pc = "parse"]
  /\ UNCHANGED <<buildVars, serveVars>>

\* try { metadata = parseMetadataBytes(...) } catch (error) { parseError = error.message }
InspectParse ==
  /\ tool.name = "inspect" /\ tool.pc = "parse"
  /\ LET r == parseMetadataBytes(tool.file)
     IN  tool' = IF r.ok THEN [tool EXCEPT !.pc = "print", !.metadata = r.value]
                 ELSE [tool EXCEPT !.pc = "print", !.parseError = r.err]
  /\ UNCHANGED <<buildVars, serveVars>>

\* const result = {...}; console.log(JSON.stringify(result, null, 2))
InspectPrint ==
  /\ tool.name = "inspect" /\ tool.pc = "print"
  /\ LET layers == extractLayerSummaries(tool.metadata)
     IN  tool' =
           IF FalsyJson(tool.metadata)
             THEN [tool EXCEPT !.pc = "done",
                     !.out = <<[header |-> TRUE,
                                metadata |-> [error |-> IF tool.parseError # "null"
                                                          THEN tool.parseError
                                                          ELSE "No metadata found"]]>>]
           ELSE IF ~layers.ok THEN ToolCatch(layers.err)
           ELSE [tool EXCEPT !.pc = "done",
                   !.out = <<[header |-> TRUE, metadata |-> [layers |-> layers.layers]]>>]
  /\ UNCHANGED <<buildVars, serveVars>>

InitInspect ==
  /\ BuildIdle
  /\ ServeIdle

NextInspect ==
  \/ \E file \in InspectFiles : InspectStart(file)
  \/ InspectRead
  \/ InspectParse
  \/ InspectPrint

SpecInspect == InitInspect /\ [][NextInspect]_vars

(***************************************************************************)
(* debugPmtiles.mjs and lib/pmtiles-utils.mjs                              *)
(***************************************************************************)
\* open(this.path, 'r') of the library's NodeFileSource
LibOpenFlags == "r"

\* node debugPmtiles.mjs <file> z x y, with finite z, x, y: openArchive and
\* archive.getZxy, which opens the file
DebugStart(c) ==
  /\ tool = NoTool
  /\ tool' = [name |-> "debug", pc |-> "open", coord |-> c, flags |-> LibOpenFlags,
              os |-> "none", failed |-> FALSE, error |-> "", closeCalls |-> 0,
              out |-> <<>>, stderr |-> "", exitCode |-> 0]
  /\ UNCHANGED <<buildVars, serveVars>>

\* open() settles; when it rejects, getZxy rejects and control reaches the
\* finally block
DebugOpen(ok) ==
  /\ tool.name = "debug" /\ tool.pc = "open"
  /\ IF ok
       THEN /\ tool' = [tool EXCEPT !.pc = "lookup", !.os = "open"]
            /\ fs' = [fs EXCEPT !.archive = OpenEffect(tool.flags, @)]
       ELSE /\ tool' = [tool EXCEPT !.pc = "closing", !.failed = TRUE, !.error = "ENOENT"]
            /\ UNCHANGED fs
  /\ UNCHANGED <<argv, inputDoc, options, bpc, exitCode, errMsg, fs0, geo, cur, written,
                 tileCount, tileCoords>>
  /\ UNCHANGED serveVars

\* archive.getZxy(z, x, y) settles: a failed read, no tile, or the tile
DebugLookup(ok) ==
  /\ tool.name = "debug" /\ tool.pc = "lookup"
  /\ tool' =
       IF ~ok THEN [tool EXCEPT !.pc = "closing", !.failed = TRUE, !.error = "EIO"]
       ELSE IF ~ArchiveHolds(fs.archive.tiles, tool.coord)
         THEN [tool EXCEPT !.pc = "closing", !.stderr = "Tile not found", !.exitCode = 1]
       ELSE [tool EXCEPT !.pc = "decode"]
  /\ UNCHANGED <<buildVars, serveVars>>

\* mutant: source.close() at the end of the try block instead of in finally
DebugDecode_closeSkipped(ok) ==
  /\ tool.name = "debug" /\ tool.pc = "decode"
  /\ tool' =
       IF ok THEN [tool EXCEPT !.pc = "closing",
                               !.out = <<ArchiveData(fs.archive.tiles, tool.coord)>>]
       ELSE ToolCatch("Unimplemented type")
  /\ UNCHANGED <<buildVars, serveVars>>

\* decodeTile, summarizeLayers and console.log: the summary is printed, or
\* the bytes do not decode and the error leaves the try block
DebugDecode(ok) ==
  /\ tool.name = "debug" /\ tool.pc = "decode"
  /\ tool' =
       IF ok THEN [tool EXCEPT !.pc = "closing",
                               !.out = <<ArchiveData(fs.archive.tiles, tool.coord)>>]
       ELSE [tool EXCEPT !.pc = "closing", !.failed = TRUE, !.error = "Unimplemented type"]
  /\ UNCHANGED <<buildVars, serveVars>>

\* finally { await source.close() }: close() awaits handlePromise, which
\* throws when open() had rejected, and closes the handle otherwise; then
\* main().catch if an error is on its way
DebugClose ==
  /\ tool.name = "debug" /\ tool.pc = "closing"
  /\ LET closed == [tool EXCEPT !.closeCalls = @ + 1,
                                !.os = IF @ = "open" THEN "closed" ELSE @]
     IN  tool' = IF tool.failed
                   THEN [closed EXCEPT !.pc = "done", !.exitCode = 1, !.stderr = tool.error]
                   ELSE [closed EXCEPT !.pc = "done"]
  /\ UNCHANGED <<buildVars, serveVars>>

(***************************************************************************)
(* SpecReadOnly: the server and the diagnostic scripts over a built archive *)
(***************************************************************************)
\* the output location a finished build left: the archive SpecServe serves
BuiltFs ==
  [dir |-> TRUE,
   archive |-> [gen |-> "new",
                tiles |-> <<[z |-> HeldCoord[1], x |-> HeldCoord[2], y |-> HeldCoord[3],
                             data |-> HeldBytes]>>,
                metadata |-> <<"metadata">>, summary |-> <<>>],
   sidecar |-> [gen |-> "new", tiles |-> <<>>, metadata |-> <<>>, summary |-> <<"summary">>]]

InitReadOnly ==
  /\ argv = <<>>
  /\ inputDoc = Doc(FALSE, FALSE, "", FALSE, <<>>)
  /\ options = NoOptions
  /\ bpc = "idle"
  /\ exitCode = 0
  /\ errMsg = ""
  /\ fs = BuiltFs
  /\ fs0 = fs
  /\ geo = NoGeo
  /\ cur = NoCur
  /\ written = <<>>
  /\ tileCount = 0
  /\ tileCoords = <<>>
  /\ ServeIdle

\* the requests of this specification come one after the other, and a
\* diagnostic script is run once the server is quiet
ServerQuiet ==
  /\ \A r \in 1..Len(reqs) : reqs[r].pc = "done"
  /\ \A c \in 1..Len(closers) : closers[c].pc \in {"done", "rejected"}
  /\ \A h \in 1..Len(handles) : handles[h].p # "pending"

NextReadOnly ==
  \/ /\ tool = NoTool
     /\ \/ /\ \A r \in 1..Len(reqs) : reqs[r].pc = "done"
           /\ \/ ReqMetadata
              \/ ReqSummary
              \/ \E present \in BOOLEAN : ReqTile(present)
        \/ \E l \in 1..Len(loads), ok \in BOOLEAN : LoadRead(l, ok)
        \/ \E l \in 1..Len(loads) : LoadDecoded(l)
        \/ \E l \in 1..Len(loads), ok \in BOOLEAN : SummaryRead(l, ok)
        \/ \E h \in 1..Len(handles), ok \in BOOLEAN : OpenSettle(h, ok)
        \/ \E r \in 1..Len(reqs) : JsonSettled(r)
        \/ \E r \in 1..Len(reqs) : TileHeaderSettled(r)
        \/ \E r \in 1..Len(reqs) : TileZxySettled(r)
        \/ CloseInvoke
        \/ \E c \in 1..Len(closers) : CloseHandleSettled(c)
        \/ \E c \in 1..Len(closers) : CloseDone(c)
  \/ ServerQuiet /\ InspectStart(BuiltArchiveFile)
  \/ InspectRead
  \/ InspectParse
  \/ InspectPrint
  \/ ServerQuiet /\ \E c \in {HeldCoord, MissingCoord} : DebugStart(c)
  \/ \E ok \in BOOLEAN : DebugOpen(ok)
  \/ \E ok \in BOOLEAN : DebugLookup(ok)
  \/ \E ok \in BOOLEAN : DebugDecode(ok)
  \/ DebugClose

SpecReadOnly == InitReadOnly /\ [][NextReadOnly]_vars

\* C15: over any sequence of tile, metadata and summary requests, close()
\* calls and runs of debugPmtiles and inspectPmtiles, the output directory,
\* the archive file and the sidecar file stay what the build left, and
\* every handle on the archive was opened with flags 'r'.
C15_ServingLeavesFilesUnchanged ==
  /\ fs = BuiltFs
  /\ \A h \in 1..Len(handles) : handles[h].flags = "r"
  /\ tool.name = "debug" => tool.flags = "r"

\* a tile served, the handle closed at shutdown, and debugPmtiles finished
\* after printing a tile
C15_Witness ==
  /\ \E r \in 1..Len(reqs) :
       reqs[r].kind = "tile" /\ reqs[r].pc = "done" /\ reqs[r].statusCode = 200
  /\ \E c \in 1..Len(closers) : closers[c].pc = "done" /\ closers[c].h # 0
  /\ tool.name = "debug" /\ tool.pc = "done" /\ tool.out # <<>>

\* C30: in a run of debugPmtiles source.close() is called at most once, not
\* before the lookup and the decoding are over, and when main has finished
\* (tile printed, tile absent, lookup failure, decode failure, or the open
\* itself failing) it was called exactly once and the handle is not open.
C30_ClosedExactlyOnce ==
  tool.name = "debug" =>
    /\ tool.closeCalls <= 1
    /\ tool.pc \in {"open", "lookup", "decode", "closing"} => tool.closeCalls = 0
    /\ tool.pc = "done" => (tool.closeCalls = 1 /\ tool.os # "open")
    /\ tool.os = "closed" <=> (tool.pc = "done" /\ tool.error # "ENOENT")

\* main finished after the tile was found and its bytes did not decode: the
\* error was reported and the handle is closed
C30_Witness ==
  /\ tool.name = "debug" /\ tool.pc = "done"
  /\ tool.failed /\ tool.stderr = "Unimplemented type" /\ tool.exitCode = 1
  /\ tool.out = <<>> /\ tool.os = "closed" /\ tool.closeCalls = 1

(***************************************************************************)
(* Tile index math: lonLatToTile and loadData.js tileBounds                *)
(***************************************************************************)
\* (x / 2 ** z) * 360 - 180
lonFromTile(x, z) == (x * 3600000) \div Pow2(z) - 1800000

\* the latitude of the upper edge of row y, rounded down to the model's unit:
\* 85.0511287798 for row 0, -85.0511287798 for row 2^z
latFromTile(y, z) ==
  IF y <= 0 THEN MAX_LATITUDE
  ELSE IF y >= Pow2(z) THEN -MAX_LATITUDE - 1
  ELSE MercatorEdges(z)[y]

\* mutant: the east edge is taken from the tile's own column
tileBounds_ownColumn(c) ==
  <<lonFromTile(c.x, c.z), latFromTile(c.y + 1, c.z), lonFromTile(c.x, c.z),
    latFromTile(c.y, c.z)>>
\* tileBounds({z, x, y}): [minLon, minLat, maxLon, maxLat]
tileBounds(c) ==
  <<lonFromTile(c.x, c.z), latFromTile(c.y + 1, c.z), lonFromTile(c.x + 1, c.z),
    latFromTile(c.y, c.z)>>

\* longitudes and latitudes tried: the limits of the valid ranges, values
\* beyond them, the Infinity of an empty bounding box, and the values next to
\* the tile edges of zoom 3
LonSamples ==
  {-INF, -2000000, -1800001, -1800000, -1799999, -1350000, -900001, -900000, -450000,
   -1, 0, 1, 450000, 899999, 900000, 1269780, 1350000, 1799999, 1800000, 1800001,
   2000000, INF}
LatSamples ==
  {-INF, -900000, -MAX_LATITUDE - 1, -MAX_LATITUDE, 375665, MAX_LATITUDE,
   MAX_LATITUDE + 1, 900000, INF}
  \cup {MercatorEdges(3)[k] : k \in 1..7} \cup {MercatorEdges(3)[k] + 1 : k \in 1..7}

\* a point and a zoom are chosen
InitTileMath ==
  /\ BuildIdle
  /\ handlePromise = 0 /\ handles = <<>> /\ headerPromise = 0 /\ metadataPromise = 0
  /\ summaryPromise = 0 /\ loads = <<>> /\ reqs = <<>> /\ closers = <<>>
  /\ cfg = [id |-> "buildings", hasSummary |-> TRUE] /\ shutdown = FALSE
  /\ tool \in [name : {"tilemath"}, pc : {"point"}, lon : LonSamples, lat : LatSamples,
               zoom : 0..ZoomCap + 1, tile : {[x |-> 0, y |-> 0]},
               box : {<<0, 0, 0, 0>>}]

\* const {x, y} = lonLatToTile(lon, lat, zoom)
TileOfPoint ==
  /\ tool.name = "tilemath" /\ tool.pc = "point"
  /\ tool' = [tool EXCEPT !.pc = "tile", !.tile = lonLatToTile(tool.lon, tool.lat, tool.zoom)]
  /\ UNCHANGED <<buildVars, serveVars>>

\* tileBounds({z, x, y})
BoundsOfTile ==
  /\ tool.name = "tilemath" /\ tool.pc = "tile"
  /\ tool' = [tool EXCEPT !.pc = "box",
                          !.box = tileBounds([z |-> tool.zoom, x |-> tool.tile.x,
                                              y |-> tool.tile.y])]
  /\ UNCHANGED <<buildVars, serveVars>>

NextTileMath == TileOfPoint \/ BoundsOfTile

SpecTileMath == InitTileMath /\ [][NextTileMath]_vars

\* C16: for every longitude, latitude and zoom, lonLatToTile returns a column
\* and a row in 0..2^zoom - 1; a latitude at or beyond +85.0511 gives row 0
\* and one at or beyond -85.0511 gives the last row.
C16_TileIndexInRange ==
  (tool.name = "tilemath" /\ tool.pc # "point") =>
    /\ tool.tile.x \in 0..Pow2(tool.zoom) - 1
    /\ tool.tile.y \in 0..Pow2(tool.zoom) - 1
    /\ tool.lat >= MAX_LATITUDE => tool.tile.y = 0
    /\ tool.lat <= -MAX_LATITUDE => tool.tile.y = Pow2(tool.zoom) - 1

\* a point east of 180 degrees and north of the clamp, at a zoom with
\* several tiles, mapped to the last column of row 0
C16_Witness ==
  /\ tool.name = "tilemath" /\ tool.pc = "tile"
  /\ tool.lon > 1800000 /\ tool.lat > MAX_LATITUDE /\ tool.zoom >= 2
  /\ tool.tile = [x |-> Pow2(tool.zoom) - 1, y |-> 0]

\* C17: for a point with longitude in -180..180 and latitude inside the
\* non-clamped range, the bounds of the tile lonLatToTile gives for it
\* contain the point.
C17_TileBoundsContainPoint ==
  (/\ tool.name = "tilemath" /\ tool.pc = "box"
   /\ tool.lon >= -1800000 /\ tool.lon <= 1800000
   /\ tool.lat >= -MAX_LATITUDE /\ tool.lat <= MAX_LATITUDE) =>
    /\ tool.box[1] <= tool.lon /\ tool.lon <= tool.box[3]
    /\ tool.box[2] <= tool.lat /\ tool.lat <= tool.box[4]
    /\ tool.box[1] < tool.box[3] /\ tool.box[2] < tool.box[4]

\* a point on a tile edge of zoom 3, inside the valid ranges, with its box
C17_Witness ==
  /\ tool.name = "tilemath" /\ tool.pc = "box" /\ tool.zoom = 3
  /\ tool.lon = 900000 /\ tool.lat = MercatorEdges(3)[2]
  /\ tool.box[1] = tool.lon /\ tool.box[4] = tool.lat

\* C18 (as claimed): for a readable file whose header parses, inspectPmtiles
\* ends with exit code 0 and prints a result with the header section; when
\* parseMetadataBytes throws, the result's metadata is {error: <reason>} and
\* the metadata value stays null; when the metadata block is empty, the
\* result's metadata is {error: 'No metadata found'}.
C18_MetadataNeverFailsInspect ==
  (/\ tool.name = "inspect" /\ tool.pc = "done"
   /\ tool.file.readable /\ tool.file.headerOk) =>
    LET r == parseMetadataBytes(tool.file)
    IN  /\ tool.exitCode = 0
        /\ Len(tool.out) = 1
        /\ tool.out[1].header
        /\ ~r.ok => (tool.out[1].metadata = [error |-> r.err] /\ tool.metadata = "null")
        /\ tool.file.jsonMetadataLength = 0 =>
             tool.out[1].metadata = [error |-> "No metadata found"]

JUndefined == [t |-> "undefined", v |-> <<>>]
JNull == [t |-> "null", v |-> <<>>]
JNumber(n) == [t |-> "number", v |-> <<n>>]
JArray(elems) == [t |-> "array", v |-> elems]
JObject(entries) == [t |-> "object", v |-> entries]

\* what the summary sidecar can hold: the members loadBuildings reads
SummaryFieldsValues ==
  {JUndefined, JNull, JObject(<<>>), JObject(detectFieldTypes(<<PropertiesOf(Feature("p1", 0, 0))>>, DefaultSampleSize)),
   JObject(<< <<"far", "Number">>, <<"pnu", "String">> >>)}
\* a JSON string that is not the text of a number
JText == [t |-> "string", v |-> <<>>]
\* the tileCoords entry [z, x, y]
CoordEntry(z, x, y) == JArray(<<JNumber(z), JNumber(x), JNumber(y)>>)
SummaryTileCoordsValues ==
  {JUndefined, JArray(<<>>), JArray(<<CoordEntry(1, 0, 0)>>),
   JArray(<<CoordEntry(1, 0, 0), CoordEntry(1, 1, 1)>>),
   JArray(<<JNull, CoordEntry(2, 1, 1)>>),
   JArray(<<JArray(<<JNumber(1), JNumber(0)>>)>>),
   JArray(<<JArray(<<JText, JNumber(0), JNumber(0)>>), CoordEntry(2, 3, 0)>>),
   JArray(<<JArray(<<JNull, JNumber(0), JNumber(0)>>)>>)}
SummaryBoundsValues ==
  {JUndefined, JArray(<<JNumber(1268000), JNumber(374000), JNumber(1271000)>>),
   JArray(<<JNumber(1268000), JNumber(374000), JNumber(1271000), JNumber(377000)>>)}
SummaryZoomValues == {JUndefined, JNumber(ZoomCap)}
SummaryFeatureCounts == {JUndefined, JNumber(0), JNumber(MaxFeatures)}
SummaryValues ==
  {[t |-> "null", fields |-> JUndefined, tileCoords |-> JUndefined,
    geojsonFeatures |-> JUndefined, bounds |-> JUndefined, summaryzoom |-> JUndefined]}
  \cup [t : {"object"}, fields : SummaryFieldsValues,
        tileCoords : SummaryTileCoordsValues, geojsonFeatures : SummaryFeatureCounts,
        bounds : SummaryBoundsValues, summaryzoom : SummaryZoomValues]

\* outcomes of fetch(summaryUrl) followed by response.json()
FetchOutcomes ==
  {[kind |-> k, summary |-> CHOOSE v \in SummaryValues : v.t = "null"] :
     k \in {"network", "status500", "badJson"}}
  \cup {[kind |-> "ok", summary |-> v] : v \in SummaryValues}

\* FIELD_TYPE_MAP[String(typeValue || '').toLowerCase()] ?? ALL_FIELD_TYPES.string
FieldTypeOf(typeValue) ==
  IF typeValue \in {"Number", "number", "float", "double"} THEN "real"
  ELSE IF typeValue \in {"integer", "int"} THEN "integer"
  ELSE IF typeValue \in {"Boolean", "boolean", "bool"} THEN "boolean"
  ELSE "string"

\* Object.entries(summaryFields).map(...); the default {} stands in for
\* undefined only, so Object.entries(null) throws
mapFieldEntries(summaryFields) ==
  IF summaryFields.t = "null" THEN [ok |-> FALSE, value |-> <<>>]
  ELSE [ok |-> TRUE,
        value |-> [i \in 1..Len(summaryFields.v) |->
                     [name |-> summaryFields.v[i][1],
                      fieldType |-> FieldTypeOf(summaryFields.v[i][2])]]]

\* fields.find(predicate)?.name, or the fallback
pickFieldName(fields, types, fallbackName) ==
  LET hits == {i \in 1..Len(fields) : fields[i].fieldType \in types}
  IN  IF hits = {} THEN fallbackName
      ELSE fields[CHOOSE i \in hits : \A j \in hits : i <= j].name

\* Number(v) of a JSON value: a number is itself, null converts to 0, a text
\* that is no number to NaN
NumberOf(value) ==
  IF value.t = "number" THEN Num(value.v[1])
  ELSE IF value.t = "null" THEN Num(0)
  ELSE NaN

\* normalizeTileCoords(rawCoords): the entries that are arrays of three
\* elements whose Number() is finite, as {z, x, y}
normalizeTileCoords(rawCoords) ==
  IF rawCoords.t # "array" THEN <<>>
  ELSE LET kept(coord) == /\ coord.t = "array" /\ Len(coord.v) = 3
                          /\ \A k \in 1..3 : NumberOf(coord.v[k]).finite
           entries == SelectSeq(rawCoords.v, kept)
       IN  [i \in 1..Len(entries) |->
              [z |-> NumberOf(entries[i].v[1]).n, x |-> NumberOf(entries[i].v[2]).n,
               y |-> NumberOf(entries[i].v[3]).n]]

\* deriveBounds(coords): null without coordinates, else the reduce over
\* tileBounds from [Infinity, Infinity, -Infinity, -Infinity]
RECURSIVE ReduceBounds(_, _, _)
ReduceBounds(coords, i, acc) ==
  IF i > Len(coords) THEN acc
  ELSE LET b == tileBounds(coords[i])
       IN  ReduceBounds(coords, i + 1, <<Min(acc[1], b[1]), Min(acc[2], b[2]),
                                         Max(acc[3], b[3]), Max(acc[4], b[4])>>)
deriveBounds(coords) ==
  IF Len(coords) = 0 THEN JNull
  ELSE LET acc == ReduceBounds(coords, 1, <<INF, INF, -INF, -INF>>)
       IN  JArray([k \in 1..4 |-> JNumber(acc[k])])

\* Array.isArray(summary.bounds) && summary.bounds.length === 4 ? summary.bounds : derivedBounds
BoundsOf(summary) ==
  IF summary.bounds.t = "array" /\ Len(summary.bounds.v) = 4 THEN summary.bounds
  ELSE deriveBounds(normalizeTileCoords(summary.tileCoords))

DEFAULT_CENTER == [longitude |-> 1269780, latitude |-> 375665, zoom |-> 13]
\* computeCenter(bounds, zoom); the halves are rounded down to the model's unit
computeCenter(bounds, zoom) ==
  IF bounds.t = "array" /\ Len(bounds.v) = 4
    THEN [longitude |-> (bounds.v[1].v[1] + bounds.v[3].v[1]) \div 2,
          latitude |-> (bounds.v[2].v[1] + bounds.v[4].v[1]) \div 2,
          zoom |-> IF zoom.t = "number" THEN zoom.v[1] ELSE DEFAULT_CENTER.zoom]
    ELSE DEFAULT_CENTER

\* metadata.geojsonFeatures ?? 0
RowsOf(summary) ==
  IF summary.geojsonFeatures.t = "number" THEN summary.geojsonFeatures.v[1] ELSE 0

NoLoad ==
  [name |-> "load", pc |-> "idle", status |-> "unset", rows |-> -1,
   fetch |-> "none", summary |-> CHOOSE v \in SummaryValues : v.t = "null",
   dispatched |-> <<>>, colorFieldName |-> "", labelFieldName |-> "", tileCount |-> -1,
   bounds |-> JUndefined, center |-> [longitude |-> 0, latitude |-> 0, zoom |-> 0],
   error |-> "none", cancelled |-> FALSE]

\* keplerUI.jsx effect: loadBuildings(dispatch) is called once; it sets the
\* status before the fetch
LoadStart ==
  /\ tool = NoTool
  /\ tool' = [NoLoad EXCEPT !.pc = "fetching", !.status = "fetching-summary", !.rows = 0]
  /\ UNCHANGED <<buildVars, serveVars>>

\* await fetchJson(summaryUrl) returns the summary or throws
FetchSettled(outcome) ==
  /\ tool.name = "load" /\ tool.pc = "fetching"
  /\ tool' = IF outcome.kind = "ok"
               THEN [tool EXCEPT !.pc = "derive", !.fetch = "ok", !.summary = outcome.summary]
               ELSE [tool EXCEPT !.pc = "thrown", !.fetch = outcome.kind,
                                 !.status = "error", !.error = outcome.kind]
  /\ UNCHANGED <<buildVars, serveVars>>

\* the dataset is derived from the summary: summary.tileCoords throws on a
\* null summary, mapFieldEntries on null fields
LoadDerive ==
  /\ tool.name = "load" /\ tool.pc = "derive"
  /\ LET summary == tool.summary
         summaryFields == mapFieldEntries(summary.fields)
     IN  tool' =
           IF summary.t = "null" \/ ~summaryFields.ok
             THEN [tool EXCEPT !.pc = "thrown", !.error = "TypeError"]
             ELSE [tool EXCEPT !.pc = "addDataToMap",
                               !.colorFieldName = pickFieldName(summaryFields.value,
                                                                {"real", "integer"}, "value"),
                               !.labelFieldName = pickFieldName(summaryFields.value,
                                                                {"string"}, "pnu"),
                               !.tileCount = Len(normalizeTileCoords(summary.tileCoords)),
                               !.bounds = BoundsOf(summary),
                               !.center = computeCenter(BoundsOf(summary),
                                                        summary.summaryzoom)]
  /\ UNCHANGED <<buildVars, serveVars>>

\* dispatch(addDataToMap(...))
LoadDispatchAdd ==
  /\ tool.name = "load" /\ tool.pc = "addDataToMap"
  /\ tool' = [tool EXCEPT !.pc = "updateMap", !.dispatched = Append(@, "addDataToMap")]
  /\ UNCHANGED <<buildVars, serveVars>>

\* dispatch(MapStateActions.updateMap(...))
LoadDispatchUpdate ==
  /\ tool.name = "load" /\ tool.pc = "updateMap"
  /\ tool' = [tool EXCEPT !.pc = "setReady", !.dispatched = Append(@, "updateMap")]
  /\ UNCHANGED <<buildVars, serveVars>>

\* setGlobalStatus({status: 'ready', rows, ...}) and return
LoadReady ==
  /\ tool.name = "load" /\ tool.pc = "setReady"
  /\ tool' = [tool EXCEPT !.pc = "returned", !.status = "ready", !.rows = RowsOf(tool.summary)]
  /\ UNCHANGED <<buildVars, serveVars>>

\* the caller's .catch: sets 'error' unless the effect was cleaned up
LoadCaught ==
  /\ tool.name = "load" /\ tool.pc = "thrown"
  /\ tool' = [tool EXCEPT !.pc = "caught",
                          !.status = IF tool.cancelled THEN @ ELSE "error"]
  /\ UNCHANGED <<buildVars, serveVars>>

\* the effect's cleanup function
LoadCleanup ==
  /\ tool.name = "load" /\ tool.pc \in {"fetching", "thrown"} /\ ~tool.cancelled
  /\ tool' = [tool EXCEPT !.cancelled = TRUE]
  /\ UNCHANGED <<buildVars, serveVars>>

InitLoad == BuildIdle /\ ServeIdle

NextLoad ==
  \/ LoadStart
  \/ \E outcome \in FetchOutcomes : FetchSettled(outcome)
  \/ LoadDerive
  \/ LoadDispatchAdd
  \/ LoadDispatchUpdate
  \/ LoadReady
  \/ LoadCaught
  \/ LoadCleanup

SpecLoad == InitLoad /\ [][NextLoad]_vars

\* C20: loadBuildings sets the status to 'fetching-summary' before the fetch;
\* a load whose summary request succeeded ends with status 'ready', and
\* 'ready' is set only after addDataToMap and then updateMap were dispatched;
\* a load whose summary request failed has status 'error', has dispatched
\* nothing and never sets 'ready'.
C20_LoadStatusFollowsSummary ==
  tool.name = "load" =>
    /\ tool.pc = "fetching" => tool.status = "fetching-summary"
    /\ (tool.fetch = "ok" /\ tool.pc \in {"returned", "thrown", "caught"}) =>
         tool.status = "ready"
    /\ tool.status = "ready" => tool.dispatched = <<"addDataToMap", "updateMap">>
    /\ tool.fetch \notin {"none", "ok"} =>
         tool.status = "error" /\ tool.dispatched = <<>>

(***************************************************************************)
(* The tiles of a successful build                                         *)
(***************************************************************************)
\* C21: after a successful build the tiles written are exactly the
\* coordinates of the zooms minzoom..maxzoom inside the tile range of the
\* dataset bounds for which getTile returns at least one feature; each is
\* written once, in order of increasing z, then x, then y, and the archive
\* on disk holds these tiles.
C21_WrittenAreTheNonEmptyScanned ==
  bpc = "done" =>
    LET nonEmpty == {c \in ScannedCoords : FeatureCountAt(c.z, c.x, c.y) >= 1}
    IN  /\ {[z |-> written[i].z, x |-> written[i].x, y |-> written[i].y] :
              i \in 1..Len(written)} = nonEmpty
        /\ Len(written) = Cardinality(nonEmpty)
        /\ \A i, j \in 1..Len(written) : i < j => ScanOrder(written[i], written[j])
        /\ fs.archive.tiles = written

\* a successful build over two zooms that wrote two tiles of one zoom in
\* different rows of one column and passed an empty coordinate
C21_Witness ==
  /\ bpc = "done"
  /\ \E i, j \in 1..Len(written) :
       /\ written[i].z = written[j].z /\ written[i].x = written[j].x
       /\ written[i].y < written[j].y
  /\ \E i, j \in 1..Len(written) : written[i].z < written[j].z
  /\ \E c \in ScannedCoords : FeatureCountAt(c.z, c.x, c.y) = 0

\* C22: for every successful build the sidecar's tiles field is the number
\* of tiles in the archive, its summaryzoom lies in minzoom..maxzoom, and
\* its tileCoords is the sequence of the written coordinates whose z is the
\* summaryzoom, each once, in write order.
C22_SidecarMatchesArchive ==
  bpc = "done" =>
    LET sidecar == fs.sidecar.summary[1]
        atSummaryZoom(w) == w.z = sidecar.summaryzoom
        listed == SelectSeq(fs.archive.tiles, atSummaryZoom)
    IN  /\ sidecar.tiles = Len(fs.archive.tiles)
        /\ sidecar.minzoom <= sidecar.summaryzoom
        /\ sidecar.summaryzoom <= sidecar.maxzoom
        /\ sidecar.tileCoords = [k \in 1..Len(listed) |->
                                   <<listed[k].z, listed[k].x, listed[k].y>>]

\* a successful build whose requested summary zoom lay below minzoom, with
\* two tiles at the summary zoom and more tiles at another zoom
C22_Witness ==
  /\ bpc = "done"
  /\ options.summaryzoom < options.minzoom
  /\ Len(fs.sidecar.summary[1].tileCoords) = 2
  /\ fs.sidecar.summary[1].tiles > 2

(***************************************************************************)
(* getTileRange on a bounds box, and the tile of a point                   *)
(***************************************************************************)
\* corners tried: beyond and on the limits, the Infinity of an empty
\* bounding box, and both sides of a row edge of zoom 2
RangeLons == {-INF, -1800000, -1, 900000, INF}
RangeLats == {-INF, -MAX_LATITUDE - 1, 0, MercatorEdges(2)[1], MercatorEdges(2)[1] + 1, INF}

InitTileRange ==
  /\ BuildIdle
  /\ handlePromise = 0 /\ handles = <<>> /\ headerPromise = 0 /\ metadataPromise = 0
  /\ summaryPromise = 0 /\ loads = <<>> /\ reqs = <<>> /\ closers = <<>>
  /\ cfg = [id |-> "buildings", hasSummary |-> TRUE] /\ shutdown = FALSE
  /\ tool \in [name : {"tilerange"}, pc : {"bounds"},
               box : RangeLons \X RangeLats \X RangeLons \X RangeLats,
               zoom : 0..ZoomCap + 1,
               range : {[minX |-> 0, maxX |-> 0, minY |-> 0, maxY |-> 0]},
               lon : {0}, lat : {0}, tile : {[x |-> 0, y |-> 0]}]

\* const range = getTileRange(bounds, z)
RangeOfBounds ==
  /\ tool.name = "tilerange" /\ tool.pc = "bounds"
  /\ tool' = [tool EXCEPT !.pc = "range", !.range = getTileRange(tool.box, tool.zoom)]
  /\ UNCHANGED <<buildVars, serveVars>>

\* lonLatToTile(lon, lat, zoom) of a point
TileOfRangePoint(lon, lat) ==
  /\ tool.name = "tilerange" /\ tool.pc = "range"
  /\ tool' = [tool EXCEPT !.pc = "tile", !.lon = lon, !.lat = lat,
                          !.tile = lonLatToTile(lon, lat, tool.zoom)]
  /\ UNCHANGED <<buildVars, serveVars>>

NextTileRange ==
  \/ RangeOfBounds
  \/ \E lon \in RangeLons, lat \in RangeLats : TileOfRangePoint(lon, lat)

SpecTileRange == InitTileRange /\ [][NextTileRange]_vars

\* C23: getTileRange returns minX <= maxX and minY <= maxY with all four
\* values in 0..2^zoom - 1, and the tile of every point inside a bounds box
\* with minLon <= maxLon and minLat <= maxLat lies inside the range.
C23_TileRangeCoversBounds ==
  (tool.name = "tilerange" /\ tool.pc # "bounds") =>
    LET range == tool.range
        last == Pow2(tool.zoom) - 1
    IN  /\ range.minX <= range.maxX /\ range.minY <= range.maxY
        /\ {range.minX, range.maxX, range.minY, range.maxY} \subseteq 0..last
        /\ ( /\ tool.pc = "tile"
             /\ tool.box[1] <= tool.lon /\ tool.lon <= tool.box[3]
             /\ tool.box[2] <= tool.lat /\ tool.lat <= tool.box[4] ) =>
             /\ range.minX <= tool.tile.x /\ tool.tile.x <= range.maxX
             /\ range.minY <= tool.tile.y /\ tool.tile.y <= range.maxY

\* a box spanning several columns and rows, and a point strictly inside it
\* whose tile is neither corner's tile
C23_Witness ==
  /\ tool.name = "tilerange" /\ tool.pc = "tile" /\ tool.zoom = 2
  /\ tool.box[1] < tool.lon /\ tool.lon < tool.box[3]
  /\ tool.box[2] < tool.lat /\ tool.lat < tool.box[4]
  /\ tool.range.minX < tool.tile.x /\ tool.tile.x < tool.range.maxX
  /\ tool.range.minY < tool.tile.y /\ tool.tile.y < tool.range.maxY

(***************************************************************************)
(* detectFieldTypes on sampled features                                    *)
(***************************************************************************)
\* the properties objects tried: none, one entry, and two entries
SampleProperties ==
  {[hasProps |-> FALSE, props |-> <<>>]}
  \cup {[hasProps |-> TRUE, props |-> << <<k, v>> >>] :
          k \in {"far", "constructor"}, v \in {"number", "boolean", "string", "null"}}
  \cup {[hasProps |-> TRUE, props |-> << <<"far", v>>, <<"pnu", w>> >>] :
          v \in {"number", "undefined"}, w \in {"string", "object"}}
SampleSizes == {1, 2, DefaultSampleSize}

InitFieldTypes ==
  /\ BuildIdle
  /\ handlePromise = 0 /\ handles = <<>> /\ headerPromise = 0 /\ metadataPromise = 0
  /\ summaryPromise = 0 /\ loads = <<>> /\ reqs = <<>> /\ closers = <<>>
  /\ cfg = [id |-> "buildings", hasSummary |-> TRUE] /\ shutdown = FALSE
  /\ tool \in [name : {"fieldtypes"}, pc : {"call"},
               features : SeqsUpTo(SampleProperties, MaxFeatures + 1),
               sampleSize : SampleSizes, types : {<<>>}]

\* const fields = detectFieldTypes(features, sampleSize)
DetectFieldTypes ==
  /\ tool.name = "fieldtypes" /\ tool.pc = "call"
  /\ tool' = [tool EXCEPT !.pc = "returned",
                          !.types = detectFieldTypes(tool.features, tool.sampleSize)]
  /\ UNCHANGED <<buildVars, serveVars>>

NextFieldTypes == DetectFieldTypes

SpecFieldTypes == InitFieldTypes /\ [][NextFieldTypes]_vars

\* the sampled features, and for a property name the types of its sampled
\* values that are neither null nor undefined, as <<feature, type>>
SampledRange == 1..Min(Len(tool.features), tool.sampleSize)
NonNullSamples(key) ==
  {s \in SampledRange \X {"number", "boolean", "string", "object"} :
     /\ tool.features[s[1]].hasProps
     /\ \E j \in 1..Len(tool.features[s[1]].props) :
          tool.features[s[1]].props[j] = <<key, s[2]>>}

\* C24: detectFieldTypes returns, for each property name with a sampled
\* value that is not null or undefined, the type class of the first such
\* value among the first min(length, sampleSize) features, and no entry for
\* any other name; features past the sample size have no influence.
C24_FieldTypesOfFirstValues ==
  (tool.name = "fieldtypes" /\ tool.pc = "returned") =>
    /\ \A key \in {"far", "pnu", "constructor"} :
         LET samples == NonNullSamples(key)
             entries == {k \in 1..Len(tool.types) : tool.types[k][1] = key}
         IN  IF samples = {} THEN entries = {}
             ELSE /\ Cardinality(entries) = 1
                  /\ \E s \in samples :
                       /\ \A o \in samples : s[1] <= o[1]
                       /\ \A k \in entries : tool.types[k][2] = TypeClass(s[2])
    /\ \A k \in 1..Len(tool.types) : tool.types[k][1] \in {"far", "pnu", "constructor"}

(***************************************************************************)
(* NodeFileSource: one open per source                                     *)
(***************************************************************************)
\* the byte source of one archive under metadata and tile requests and
\* close() calls; reads of an open file succeed, open() may fail
InitSource == BuildIdle /\ ServeIdle

NextSource ==
  \/ ReqMetadata
  \/ ReqTile(TRUE)
  \/ \E l \in 1..Len(loads) : LoadRead(l, TRUE)
  \/ \E l \in 1..Len(loads) : LoadDecoded(l)
  \/ \E h \in 1..Len(handles), ok \in BOOLEAN : OpenSettle(h, ok)
  \/ \E r \in 1..Len(reqs) : JsonSettled(r)
  \/ \E r \in 1..Len(reqs) : TileHeaderSettled(r)
  \/ \E r \in 1..Len(reqs) : TileZxySettled(r)
  \/ CloseInvoke
  \/ \E c \in 1..Len(closers) : CloseHandleSettled(c)
  \/ \E c \in 1..Len(closers) : CloseDone(c)

SpecSource == InitSource /\ [][NextSource]_vars

\* the close() calls that have reset handlePromise to null
ResetsDone == {c \in 1..Len(closers) : closers[c].pc = "done" /\ closers[c].h # 0}

\* C25: while close() has not been called, the getBytes calls of any number
\* of concurrent requests open the file at most once and all read through
\* that one handle; every further open comes after a close() that has reset
\* the source, one open at most per reset.
C25_OneOpenPerSource ==
  /\ closers = <<>> =>
       /\ Len(handles) <= 1
       /\ \A l \in 1..Len(loads) :
            loads[l].kind # "summary" => (loads[l].h = 1 /\ handlePromise = 1)
  /\ Len(handles) <= 1 + Cardinality(ResetsDone)
  /\ handlePromise # 0 => handlePromise \in 1..Len(handles)

\* two archive calls of concurrent requests went through the first handle; a
\* close() reset the source and a later call opened the file a second time
C25_Witness ==
  /\ Len(handles) = 2
  /\ ResetsDone # {}
  /\ \E l1, l2, l3 \in 1..Len(loads) :
       l1 # l2 /\ loads[l1].h = 1 /\ loads[l2].h = 1 /\ loads[l3].h = 2

(***************************************************************************)
(* Retry after a failed metadata or summary load                           *)
(***************************************************************************)
\* C26: a metadata or summary load that rejects leaves the cached promise
\* cleared and every request that awaited it is answered 500; a request
\* arriving with no cached promise starts exactly one new load and caches it,
\* one arriving with a cached promise starts none and awaits the cached load;
\* a cached promise is given up only when its own load rejects, so a load that
\* is in flight or has succeeded is never cleared or replaced.
C26_RejectionClearsOnlyItsOwnLoad ==
  [][\A kind \in {"metadata", "summary"} :
       LET cached == CachedPromise(kind)
           cachedNext == CachedPromise(kind)'
       IN  /\ cachedNext # 0 =>
                /\ cachedNext \in 1..Len(loads')
                /\ loads'[cachedNext].kind = kind
                /\ loads'[cachedNext].st # "rejected"
           /\ (cached # 0 /\ cachedNext # cached) =>
                /\ cachedNext = 0
                /\ loads[cached].st # "resolved"
                /\ loads'[cached].st = "rejected"
           /\ \A l \in 1..Len(loads) :
                (loads[l].kind = kind /\ loads[l].st # "rejected" /\ loads'[l].st = "rejected")
                  => (cached = l /\ cachedNext = 0)
           /\ \A r \in 1..Len(reqs') :
                (reqs'[r].kind = kind /\ ~Unrouted(reqs'[r])) =>
                  /\ r > Len(reqs) =>
                       IF cached = 0
                         THEN /\ Len(loads') = Len(loads) + 1
                              /\ cachedNext = Len(loads')
                              /\ reqs'[r].load = cachedNext
                         ELSE /\ Len(loads') = Len(loads)
                              /\ cachedNext = cached
                              /\ reqs'[r].load = cached
                  /\ (reqs'[r].pc = "done" /\ loads'[reqs'[r].load].st = "rejected") =>
                       /\ reqs'[r].statusCode = 500 /\ reqs'[r].body = "none"
  ]_vars

\* a request answered 500 after its load was rejected, and a later request
\* of the same kind awaiting the new load that the cached promise holds
C26_Witness ==
  \E kind \in {"metadata", "summary"} : \E r1, r2 \in 1..Len(reqs) :
    /\ reqs[r1].kind = kind /\ reqs[r2].kind = kind /\ r1 < r2
    /\ reqs[r1].pc = "done" /\ reqs[r1].statusCode = 500
    /\ loads[reqs[r1].load].st = "rejected"
    /\ reqs[r2].load # reqs[r1].load
    /\ CachedPromise(kind) = reqs[r2].load
    /\ reqs[r2].pc = "awaitJson"

(***************************************************************************)
(* The dataset bounds and the map center of a load                         *)
(***************************************************************************)
\* the tileCoords entries that are arrays of three finite numbers
FiniteCoordEntries(rawCoords) ==
  IF rawCoords.t # "array" THEN <<>>
  ELSE LET finite(coord) == /\ coord.t = "array" /\ Len(coord.v) = 3
                            /\ \A k \in 1..3 : coord.v[k].t = "number"
       IN  SelectSeq(rawCoords.v, finite)

\* C27: a load that derived its dataset took the bounds from summary.bounds
\* when that is an array of length 4; otherwise the bounds are the union of
\* the tile bounds of the tileCoords entries that are arrays of three finite
\* numbers, every other entry being dropped; with no such entry the bounds
\* are null and the center is the default center.
C27_BoundsFromSummaryOrTiles ==
  (tool.name = "load" /\ tool.pc \in {"addDataToMap", "updateMap", "setReady", "returned"}) =>
    LET summary == tool.summary
        entries == FiniteCoordEntries(summary.tileCoords)
        boxes == {tileBounds([z |-> entries[i].v[1].v[1], x |-> entries[i].v[2].v[1],
                              y |-> entries[i].v[3].v[1]]) : i \in 1..Len(entries)}
    IN  IF summary.bounds.t = "array" /\ Len(summary.bounds.v) = 4
          THEN tool.bounds = summary.bounds
        ELSE IF entries = <<>>
          THEN tool.bounds = JNull /\ tool.center = DEFAULT_CENTER
        ELSE /\ tool.bounds.t = "array"
             /\ tool.bounds.v[1].v[1] = SetMin({b[1] : b \in boxes})
             /\ tool.bounds.v[2].v[1] = SetMin({b[2] : b \in boxes})
             /\ tool.bounds.v[3].v[1] = SetMax({b[3] : b \in boxes})
             /\ tool.bounds.v[4].v[1] = SetMax({b[4] : b \in boxes})

(***************************************************************************)
(* The map view: click selection and the window click listener             *)
(* (src/app/src/keplerUI.jsx).  The map has two buildings; null is "null". *)
(***************************************************************************)
FeatureIds == {"a", "b"}

\* what queryFeaturesAtPoint finds under a click: the pnu of the first
\* feature, or "none" for an empty result
ClickTargets == FeatureIds \cup {"none"}

\* what map.getContainer() answers: the element the map was constructed
\* in, which the map keeps for its whole life
MapContainers == {TRUE}

\* the last event was not a click
NoEvent == [ev |-> "other", target |-> "none", was |-> {}, handled |-> FALSE]

\* the App component after its first render, before the map ref arrives
NoApp ==
  [name |-> "app", mounted |-> TRUE, mapboxRef |-> FALSE, mapRemoved |-> FALSE,
   hasLayers |-> FALSE, styleLoaded |-> FALSE,
   windowListeners |-> <<>>, hoverDetachRef |-> 0, hoverStyleListenerRef |-> FALSE,
   onceListeners |-> {}, timers |-> {},
   selected |-> {}, hoverInfo |-> "null", lastEvent |-> NoEvent]

\* the id of a newly created handleWindowClick closure
FreshId(listeners) == 1 + SetMax({0} \cup {listeners[k].id : k \in 1..Len(listeners)})

\* hoverDetachRef.current(): removes the recorded listener, clears the ref
Detach(app) ==
  LET others(w) == w.id # app.hoverDetachRef
  IN  [app EXCEPT !.windowListeners = SelectSeq(@, others), !.hoverDetachRef = 0]

\* attachHoverHandlers(map): false without a building layer; else the
\* recorded handler is detached, and with a map container a new closure
\* whose selectedFeatureId is null is registered on window and recorded
attachHoverHandlers(app, container) ==
  IF ~app.hasLayers THEN [app |-> app, result |-> FALSE]
  ELSE LET detached == IF app.hoverDetachRef # 0 THEN Detach(app) ELSE app
           id == FreshId(detached.windowListeners)
       IN  IF ~container THEN [app |-> detached, result |-> FALSE]
           ELSE [app |-> [detached EXCEPT
                            !.windowListeners =
                               Append(@, [id |-> id, selectedFeatureId |-> "null"]),
                            !.hoverDetachRef = id],
                 result |-> TRUE]

\* handleClick(point) of the k-th registered closure
handleClick(app, k, target) ==
  LET selectedFeatureId == app.windowListeners[k].selectedFeatureId
      cleared == IF selectedFeatureId # "null" /\ selectedFeatureId # target
                   THEN app.selected \ {selectedFeatureId} ELSE app.selected
  IN  IF target # "none"
        THEN IF selectedFeatureId = target
               THEN [app EXCEPT !.selected = cleared \ {target},
                                !.windowListeners[k].selectedFeatureId = "null",
                                !.hoverInfo = "null"]
               ELSE [app EXCEPT !.selected = cleared \cup {target},
                                !.windowListeners[k].selectedFeatureId = target,
                                !.hoverInfo = target]
        ELSE [app EXCEPT !.selected = cleared,
                         !.windowListeners[k].selectedFeatureId = "null",
                         !.hoverInfo = "null"]

\* a click event on window runs every registered listener, in the order
\* of registration
RECURSIVE DispatchClick(_, _, _)
DispatchClick(app, k, target) ==
  IF k > Len(app.windowListeners) THEN app
  ELSE DispatchClick(handleClick(app, k, target), k + 1, target)

\* ensureHoverHandlers(map): attach now; on failure wait for style.load and
\* load (when the style is not loaded) and start the two retry timers; the
\* styledata listener is registered once
ensureHoverHandlers(app, container) ==
  LET attached == attachHoverHandlers(app, container)
      waiting == IF attached.result THEN attached.app
                 ELSE [attached.app EXCEPT
                         !.onceListeners = IF app.styleLoaded THEN @
                                           ELSE @ \cup {"style.load", "load"},
                         !.timers = @ \cup {1000, 3000}]
  IN  [waiting EXCEPT !.hoverStyleListenerRef = TRUE]

\* the App component mounts
Mount ==
  /\ tool = NoTool
  /\ tool' = NoApp
  /\ UNCHANGED <<buildVars, serveVars>>

\* handleMapboxRef(mapLike): nothing for a ref that resolves to no map
MapRef(mapLike, container) ==
  /\ tool.name = "app" /\ tool.mounted
  /\ tool' = IF mapLike = "null" THEN [tool EXCEPT !.lastEvent = NoEvent]
             ELSE [ensureHoverHandlers([tool EXCEPT !.mapboxRef = TRUE], container)
                     EXCEPT !.lastEvent = NoEvent]
  /\ UNCHANGED <<buildVars, serveVars>>

\* the map fires style.load or load: retryAttach runs if it still waits
MapEvent(type, container) ==
  /\ tool.name = "app" /\ ~tool.mapRemoved
  /\ LET loaded == [tool EXCEPT !.styleLoaded = TRUE, !.lastEvent = NoEvent]
     IN  tool' = IF type \in tool.onceListeners
                   THEN [attachHoverHandlers(loaded, container).app
                           EXCEPT !.onceListeners = @ \ {type}]
                   ELSE loaded
  /\ UNCHANGED <<buildVars, serveVars>>

\* the style changes (layers added, or the style swapped) and the map fires
\* styledata: handleStyleData attaches only when no handler is recorded
StyleData(layers, container) ==
  /\ tool.name = "app" /\ ~tool.mapRemoved
  /\ LET changed == [tool EXCEPT !.hasLayers = layers, !.lastEvent = NoEvent]
     IN  tool' = IF tool.hoverStyleListenerRef /\ tool.hoverDetachRef = 0
                   THEN attachHoverHandlers(changed, container).app
                   ELSE changed
  /\ UNCHANGED <<buildVars, serveVars>>

\* a retry timer fires: it attaches when no handler is recorded; on a map
\* that was removed the layer lookup throws and nothing is attached
Timer(delay, container) ==
  /\ tool.name = "app" /\ delay \in tool.timers
  /\ LET fired == [tool EXCEPT !.timers = @ \ {delay}, !.lastEvent = NoEvent]
     IN  tool' = IF tool.hoverDetachRef = 0 /\ ~tool.mapRemoved
                   THEN attachHoverHandlers(fired, container).app
                   ELSE fired
  /\ UNCHANGED <<buildVars, serveVars>>

\* a click on the page: outside the map container the listeners return
Click(target, overMap) ==
  /\ tool.name = "app"
  /\ target # "none" => (tool.hasLayers /\ ~tool.mapRemoved)
  /\ LET after == IF overMap THEN DispatchClick(tool, 1, target) ELSE tool
     IN  tool' = [after EXCEPT !.lastEvent =
                    [ev |-> "click", target |-> target, was |-> tool.selected,
                     handled |-> overMap /\ tool.windowListeners # <<>>]]
  /\ UNCHANGED <<buildVars, serveVars>>

\* the cleanup of the unmount effect; the map object is removed with the
\* component or outlives it
Unmount(removed) ==
  /\ tool.name = "app" /\ tool.mounted
  /\ LET detached == IF tool.hoverDetachRef # 0 THEN Detach(tool) ELSE tool
     IN  tool' = [detached EXCEPT
                    !.hoverStyleListenerRef = IF @ /\ tool.mapboxRef THEN FALSE ELSE @,
                    !.mounted = FALSE, !.mapRemoved = removed,
                    !.lastEvent = NoEvent]
  /\ UNCHANGED <<buildVars, serveVars>>

InitApp == BuildIdle /\ ServeIdle

NextApp ==
  \/ Mount
  \/ \E mapLike \in {"null", "map"}, container \in MapContainers : MapRef(mapLike, container)
  \/ \E type \in {"style.load", "load"}, container \in MapContainers : MapEvent(type, container)
  \/ \E layers \in BOOLEAN, container \in MapContainers : StyleData(layers, container)
  \/ \E delay \in {1000, 3000}, container \in MapContainers : Timer(delay, container)
  \/ \E target \in ClickTargets, overMap \in BOOLEAN : Click(target, overMap)
  \/ \E removed \in BOOLEAN : Unmount(removed)

SpecApp == InitApp /\ [][NextApp]_vars

\* C28: at most one building has feature-state selected = true, and it is
\* the feature the recorded handler holds as selectedFeatureId; a click the
\* handler processed on the selected feature, or where there is no feature,
\* leaves no building selected and no tooltip shown.
C28_OneSelectedAsRecorded ==
  tool.name = "app" =>
    /\ Cardinality(tool.selected) <= 1
    /\ \A f \in tool.selected :
         \E k \in 1..Len(tool.windowListeners) :
           /\ tool.windowListeners[k].id = tool.hoverDetachRef
           /\ tool.windowListeners[k].selectedFeatureId = f
    /\ (/\ tool.lastEvent.ev = "click" /\ tool.lastEvent.handled
        /\ (tool.lastEvent.target = "none" \/ tool.lastEvent.target \in tool.lastEvent.was))
         => (tool.selected = {} /\ tool.hoverInfo = "null")

\* C29: at most one window click listener of attachHoverHandlers is
\* registered at any time, and none once the App component has unmounted.
C29_OneListenerNoneAfterUnmount ==
  tool.name = "app" =>
    /\ Len(tool.windowListeners) <= 1
    /\ ~tool.mounted => tool.windowListeners = <<>>

====
